---- MODULE Spec2Model ----
(***************************************************************************)
(* QUEC BLE TTLV codec: the encoder (model/src/ttlv/encode.rs), the stream *)
(* decoder (model/src/ttlv/decode.rs) and the value model                  *)
(* (model/src/ttlv/model.rs, model/src/commands.rs), joined by a loopback  *)
(* channel on which encoded frames and hand-made byte strings travel to    *)
(* the decoder in arbitrary chunks.                                        *)
(*                                                                         *)
(* Bytes are integers 0..255.  Rust slices are 0-based; At(s, i) reads     *)
(* index i of a slice held as a TLA+ sequence.  An i64 is held as its 8    *)
(* big-endian two's-complement bytes, because the model checker's integers *)
(* are 32 bits wide.                                                       *)
(***************************************************************************)
EXTENDS Integers, Sequences, FiniteSets, TLC

VARIABLES
    packet_id,      \* EncodeTools.packet_id (u16 counter)
    result,         \* the EncodeResult of the last start_encode* call
    cmd_data,       \* the envelope of the last start_encode* call before garble_buffer
    encoded,        \* the arguments of the last start_encode* call
    serial,         \* value returned by the last get_serial_num call (0: none yet)
    calls,          \* number of get_serial_num calls made so far
    receive_data,   \* DecodeTools.receive_data (the accumulator)
    unstuffed,      \* the accumulator right after the splice_buffer step of the
                    \* last packet_slice call
    results,        \* the Vec<DecodeResult> returned by the last packet_slice call
    located,        \* per frame the last packet_slice call cut out, in order: the
                    \* accumulator before, n_buf_copy, and the accumulator after
    wire,           \* bytes written to the channel and not yet delivered
    sent,           \* what was written to the channel, in order
    emitted,        \* every event other than Incomplete returned so far, in order
    slices,         \* number of packet_slice calls made so far, counted up to 2
    manufacturer_data, \* the manufacturer data last given to try_get_quec_device
    quec_device,    \* what try_get_quec_device returned for it
    binding_key,    \* the notify task's binding_key
    written,        \* the frames the notify task wrote to the characteristic
    task,           \* the notify task: "running" or "panicked"
    random,         \* the String of the shared LoginInfoContainer
    session         \* the tasks of main between their awaits: where each one
                    \* stands, the write_ext calls in progress, and main itself

vars == <<packet_id, result, cmd_data, encoded, serial, calls, receive_data,
          unstuffed, results, located, wire, sent, emitted, slices,
          manufacturer_data, quec_device, binding_key, written, task, random,
          session>>

encVars == <<packet_id, result, cmd_data, encoded, serial, calls>>
chanVars == <<wire, sent>>
decVars == <<receive_data, unstuffed, results, located, emitted, slices>>
appVars == <<manufacturer_data, quec_device, binding_key, written, task, random,
            session>>

(***************************************************************************)
(* Bounds of the model.                                                    *)
(***************************************************************************)
\* number of frames and byte strings written to the loopback channel
MaxItems == 2
\* number of frames the device notifies
MaxNotified == 2
\* capacity of the loopback channel: total bytes that may be written to it
MaxWire == 24
\* number of get_serial_num calls followed in SpecSerial (more than one full cycle)
MaxCalls == 64540
\* number of auto-numbered start_encode* calls followed in SpecEnc
MaxAuto == 6
\* longest byte string given to garble_buffer on its own
MaxLen == 4

(***************************************************************************)
(* Byte and slice helpers.                                                 *)
(***************************************************************************)
B_55 == 85
B_AA == 170

At(s, i) == s[i + 1]

\* s[from..to) of a 0-based slice
Slice(s, from, to) == SubSeq(s, from + 1, to)

\* s[from..]
SliceFrom(s, from) == SubSeq(s, from + 1, Len(s))

Zeros(n) == SubSeq([i \in 1..n |-> 0], 1, n)

\* Vec::insert(index, b)
Insert(s, index, b) == SubSeq(s, 1, index) \o <<b>> \o SubSeq(s, index + 1, Len(s))

\* Vec::remove(index)
Remove(s, index) == SubSeq(s, 1, index) \o SubSeq(s, index + 2, Len(s))

(***************************************************************************)
(* i64 values as 8 big-endian two's-complement bytes.                      *)
(***************************************************************************)
RECURSIVE NatBytes(_, _)
\* the n low-order bytes of a natural number v, big-endian
NatBytes(v, n) == IF n = 0 THEN <<>> ELSE NatBytes(v \div 256, n - 1) \o <<v % 256>>

ZeroI64 == Zeros(8)
MinI64 == <<128>> \o Zeros(7)

IsNegI64(v) == v[1] >= 128

RECURSIVE AddOne(_, _)
\* b + 1, wrapping, the carry entering at byte k
AddOne(b, k) ==
    IF k = 0 THEN b
    ELSE IF b[k] = 255 THEN AddOne([b EXCEPT ![k] = 0], k - 1)
    ELSE [b EXCEPT ![k] = b[k] + 1]

\* wrapping negation of an i64: !v + 1
NegI64(v) ==
    AddOne(<<255 - v[1], 255 - v[2], 255 - v[3], 255 - v[4],
             255 - v[5], 255 - v[6], 255 - v[7], 255 - v[8]>>, 8)

\* the i64 of a small integer of the model (|n| < 2^31)
I64(n) == IF n >= 0 THEN NatBytes(n, 8) ELSE NegI64(NatBytes(-n, 8))

(***************************************************************************)
(* Value model (model.rs): TTLVValue, TTLVData, the with_* builders,       *)
(* TtlvCommandModel and TtlvTransparentModel.                              *)
(***************************************************************************)
VNone == [kind |-> "None", v |-> <<>>]
VBoolean(b) == [kind |-> "Boolean", v |-> b]
VInteger(i) == [kind |-> "Integer", v |-> i]
VFloat(m, amp) == [kind |-> "Float", v |-> [m |-> m, amp |-> amp]]
VBinary(bytes) == [kind |-> "Binary", v |-> bytes]
VStruct(list) == [kind |-> "Struct", v |-> list]

TTLVData_new(id, type_id, ttlv) ==
    [id |-> id, type_id |-> type_id, ttlv |-> ttlv, value |-> VNone]

with_boolean(d, b) == [d EXCEPT !.value = VBoolean(b), !.type_id = IF b THEN 1 ELSE 0]
with_integer(d, i) == [d EXCEPT !.value = VInteger(i), !.type_id = 2]
with_binary(d, bytes) == [d EXCEPT !.value = VBinary(bytes), !.type_id = 3]
with_struct(d, list) == [d EXCEPT !.value = VStruct(list), !.type_id = 4]

TtlvCommandModel_new(cmd, pid) == [cmd |-> cmd, packet_id |-> pid, payloads |-> <<>>]

add_payload(m, d) == [m EXCEPT !.payloads = Append(m.payloads, d)]

\* TtlvTransparentModel; packet_id is an Option<i32>
NoneId == [some |-> FALSE, id |-> 0]
SomeId(p) == [some |-> TRUE, id |-> p]
TtlvTransparentModel_new(cmd) == [cmd |-> cmd, packet_id |-> NoneId, payloads |-> <<>>]

EncodeResult_new == [cmd_key |-> [hi |-> 0, lo |-> 0], cmd_data |-> <<>>, cmd |-> 0, packet_id |-> 0]

(***************************************************************************)
(* Encoder (encode.rs).                                                    *)
(***************************************************************************)
\* fn get_byte_by_short(value: i32): [(value >> 8) & 0xff, value & 0xff]
get_byte_by_short(value) == <<(value \div 256) % 256, value % 256>>

RECURSIVE StripLeadingZeros(_)
\* the is_valid_data scan of long_to_byte_array_big_endian
StripLeadingZeros(array) ==
    IF array = <<>> THEN <<>>
    ELSE IF Head(array) > 0 THEN array
    ELSE StripLeadingZeros(Tail(array))

\* fn long_to_byte_array_big_endian(l: i64)
long_to_byte_array_big_endian(l) ==
    IF l = ZeroI64 THEN <<0>> ELSE StripLeadingZeros(l)

\* fn get_long_result, on the i64 that data.parse::<i64>() yields.  -value
\* wraps for i64::MIN in a release build (and stops a debug build).
get_long_result(value) ==
    LET neg == IsNegI64(value)
        abs_value == IF neg THEN NegI64(value) ELSE value
        parm_buf == IF abs_value # ZeroI64
                    THEN long_to_byte_array_big_endian(abs_value)
                    ELSE <<0>>
        one_byte == (IF neg THEN 128 ELSE 0) + (Len(parm_buf) - 1)
    IN <<one_byte>> \o parm_buf

\* The encoder reads a Float f as what format!("{:.15}", |f|) prints of it:
\* [neg, whole, frac], the sign, the decimal digits of the integer part and
\* the 15 digits after the point.  It reads a String as [dot, parsed]:
\* whether it contains a '.', and what parse::<i64>() or parse::<f64>() makes
\* of it (<<>> for Err, <<x>> for Ok(x), x an i64 or a float as above).

RECURSIVE MulAdd10(_, _, _)
\* acc * 10 + carry on the bytes k, k - 1, .., 1 of acc: the carry out of
\* byte 1, then the eight bytes
MulAdd10(acc, k, carry) ==
    IF k = 0 THEN <<carry>> \o acc
    ELSE MulAdd10([acc EXCEPT ![k] = (acc[k] * 10 + carry) % 256],
                  k - 1, (acc[k] * 10 + carry) \div 256)

RECURSIVE ParseI64(_, _, _)
\* str::parse::<i64>() of decimal digits from digit i on, acc the value of
\* the digits before: <<>> on overflow, else <<value>>
ParseI64(digits, i, acc) ==
    LET next(r) == IF r[1] > 0 \/ r[2] >= 128 THEN <<>>
                   ELSE ParseI64(digits, i + 1, Tail(r))
    IN IF i > Len(digits) THEN <<acc>> ELSE next(MulAdd10(acc, 8, digits[i]))

RECURSIVE TrimEndZeros(_)
\* str::trim_end_matches('0')
TrimEndZeros(d) ==
    IF d # <<>> /\ d[Len(d)] = 0 THEN TrimEndZeros(SubSeq(d, 1, Len(d) - 1)) ELSE d

\* fn extract_double: <<>> when it panics ("PARAMS_ERROR" for a fraction that
\* parses to 0, or the unwrap of the i64 parse of whole ++ trimmed fraction),
\* else <<[need_value, count]>>
extract_double(f) ==
    LET t == TrimEndZeros(f.frac)
        need(last) == IF last = <<>> THEN <<>>
                      ELSE <<[need_value |-> last[1], count |-> Len(t)]>>
    IN IF t = <<>> THEN <<>> ELSE need(ParseI64(f.whole \o t, 1, ZeroI64))

\* fn get_double_result on the f64 that data.parse::<f64>() yields; defined
\* where extract_double returns
get_double_result(f) ==
    LET bytes(x, parm_buf) ==
            <<(IF f.neg THEN 128 ELSE 0) + x.count * 8 + (Len(parm_buf) - 1)>>
            \o parm_buf
        double_need_value(x) == bytes(x, long_to_byte_array_big_endian(x.need_value))
    IN double_need_value(extract_double(f)[1])

\* fn encode_enum_value: Integer(i) goes through i.to_string() and
\* parse::<i64>(), Float(f) through f.to_string() and parse::<f64>(), which
\* give back i and f; a String goes by whether it contains a '.'.  Defined
\* where PayloadPanics is false.
encode_enum_value(obj) ==
    LET kind == obj.value.kind
        data == IF kind = "String" THEN obj.value.v.parsed[1] ELSE obj.value.v
    IN IF kind \notin {"String", "Integer", "Float"} THEN <<>>
       ELSE IF kind = "Float" \/ (kind = "String" /\ obj.value.v.dot)
       THEN get_double_result(data)
       ELSE get_long_result(data)

\* fn encode_binary
encode_binary(obj) ==
    IF obj.value.kind = "Binary"
    THEN get_byte_by_short(Len(obj.value.v)) \o obj.value.v
    ELSE <<>>

\* ((id as u16) << 3 & 0xFFF8) + (type_id as u16 & 0x07), as two bytes
ttlv_header(obj) ==
    get_byte_by_short((((obj.id % 65536) * 8) % 65536) + (obj.type_id % 8))

RECURSIVE encode_struct_payload(_), EncodeStructChildren(_, _)
\* the for loop of encode_struct_payload over the children from index i on
EncodeStructChildren(payloads, i) ==
    IF i > Len(payloads) THEN <<>>
    ELSE LET obj_sec == payloads[i]
             body ==
                 IF ~obj_sec.ttlv THEN <<>>
                 ELSE ttlv_header(obj_sec) \o
                      (CASE obj_sec.value.kind = "Binary" -> encode_binary(obj_sec)
                         [] obj_sec.value.kind = "Boolean" -> <<>>
                         [] obj_sec.value.kind \in {"String", "Integer", "Float"} ->
                                encode_enum_value(obj_sec)
                         [] obj_sec.value.kind = "Struct" -> encode_struct_payload(obj_sec)
                         [] OTHER -> <<>>)
         IN body \o EncodeStructChildren(payloads, i + 1)

\* fn encode_struct_payload: the header of obj, the element count, the children
encode_struct_payload(obj) ==
    LET payloads == IF obj.value.kind = "Struct" THEN obj.value.v ELSE <<>>
    IN ttlv_header(obj) \o get_byte_by_short(Len(payloads))
       \o EncodeStructChildren(payloads, 1)

RECURSIVE EncodePayloadFrom(_, _)
\* the for loop of encode_payload_to_buffer from index i on
EncodePayloadFrom(payloads, i) ==
    IF i > Len(payloads) THEN <<>>
    ELSE LET obj == payloads[i]
             body ==
                 IF ~obj.ttlv THEN get_byte_by_short(obj.id)
                 ELSE ttlv_header(obj) \o
                      (CASE obj.value.kind \in {"Binary", "None"} -> encode_binary(obj)
                         [] obj.value.kind = "Boolean" -> <<>>
                         [] obj.value.kind \in {"String", "Integer", "Float"} ->
                                encode_enum_value(obj)
                         [] obj.value.kind = "Struct" -> encode_struct_payload(obj))
         IN body \o EncodePayloadFrom(payloads, i + 1)

\* fn encode_payload_to_buffer
encode_payload_to_buffer(payloads) == EncodePayloadFrom(payloads, 1)

RECURSIVE PayloadPanics(_, _)
\* encode_payload_to_buffer and encode_struct_payload reach a panic of
\* encode_enum_value on some field: the unwrap of a failed parse,
\* extract_double, or -value on i64::MIN where the build checks overflow
PayloadPanics(payloads, checks) ==
    \E i \in 1..Len(payloads) :
        LET value == payloads[i].value
            data == IF value.kind = "String" THEN value.v.parsed[1] ELSE value.v
        IN /\ payloads[i].ttlv
           /\ CASE value.kind = "Struct" -> PayloadPanics(value.v, checks)
                [] value.kind = "String" /\ value.v.parsed = <<>> -> TRUE
                [] value.kind = "Float" \/ (value.kind = "String" /\ value.v.dot) ->
                      extract_double(data) = <<>>
                [] value.kind \in {"Integer", "String"} -> checks /\ data = MinI64
                [] OTHER -> FALSE

\* encode_read_payload_to_buffer that leaves out the fields that carry a value
encode_read_payload_ids_only(payloads) ==
    LET RECURSIVE From(_)
        From(i) == IF i > Len(payloads) THEN <<>>
                   ELSE IF payloads[i].ttlv THEN From(i + 1)
                   ELSE get_byte_by_short(payloads[i].id) \o From(i + 1)
    IN From(1)

\* fn encode_read_payload_to_buffer
encode_read_payload_to_buffer(payloads) ==
    LET RECURSIVE From(_)
        From(i) == IF i > Len(payloads) THEN <<>>
                   ELSE get_byte_by_short(payloads[i].id) \o From(i + 1)
    IN From(1)

\* SumStep with a saturating instead of a wrapping addition
SumStep_saturating(data, st) ==
    IF st.i >= Len(data) THEN st
    ELSE [i |-> st.i + 1,
          xor |-> IF st.i = 0 THEN At(data, 0)
                  ELSE IF st.xor + At(data, st.i) > 255 THEN 255
                  ELSE st.xor + At(data, st.i)]

\* one iteration of the for loop of sum_calculation; st = [i, xor]
SumStep(data, st) ==
    IF st.i >= Len(data) THEN st
    ELSE [i |-> st.i + 1,
          xor |-> IF st.i = 0 THEN At(data, 0) ELSE (st.xor + At(data, st.i)) % 256]

RECURSIVE SumRun(_, _, _)
\* k iterations of the loop, as two halves (the second only if the loop goes on)
SumRun(data, st, k) ==
    IF k <= 1 THEN SumStep(data, st)
    ELSE LET mid == SumRun(data, st, k \div 2)
         IN IF mid.i >= Len(data) THEN mid
            ELSE SumRun(data, mid, k - (k \div 2))

\* fn sum_calculation (the same in encode.rs and decode.rs)
sum_calculation(data) == SumRun(data, [i |-> 0, xor |-> 0], Len(data)).xor

\* GarbleStep that inserts 0x55 between AA and 55 only
GarbleStep_55_only(st) ==
    IF ~(st.count < Len(st.arr) - 1) THEN st
    ELSE LET current == At(st.arr, st.count)
             next == At(st.arr, st.count + 1)
         IN IF current = B_AA /\ next = B_55
            THEN [arr |-> Insert(st.arr, st.count + 1, B_55),
                  count |-> st.count + 2,
                  ins |-> Append(st.ins, st.count + 1)]
            ELSE [st EXCEPT !.count = st.count + 1]

\* one iteration of the while loop of garble_buffer; st = [arr, count, ins],
\* ins being the indexes at which a 0x55 was inserted
GarbleStep(st) ==
    IF ~(st.count < Len(st.arr) - 1) THEN st
    ELSE LET current == At(st.arr, st.count)
             next == At(st.arr, st.count + 1)
         IN IF (current = B_AA /\ next = B_55) \/ (current = B_AA /\ next = B_AA)
            THEN [arr |-> Insert(st.arr, st.count + 1, B_55),
                  count |-> st.count + 2,
                  ins |-> Append(st.ins, st.count + 1)]
            ELSE [st EXCEPT !.count = st.count + 1]

RECURSIVE GarbleRun(_, _)
\* k iterations of the loop, as two halves (the second only if the loop goes on)
GarbleRun(st, k) ==
    IF k <= 1 THEN GarbleStep(st)
    ELSE LET mid == GarbleRun(st, k \div 2)
         IN IF ~(mid.count < Len(mid.arr) - 1) THEN mid
            ELSE GarbleRun(mid, k - (k \div 2))

\* the loop of garble_buffer run to its end (at most one iteration per input byte)
GarbleLoop(data) == GarbleRun([arr |-> data, count |-> 2, ins |-> <<>>], Len(data))

\* fn garble_buffer, for data of at least one byte
garble_buffer(data) == GarbleLoop(data).arr

\* get_serial_num without the upper limit 0xffff
get_serial_num_no_limit(pid) ==
    LET next == (pid + 1) % 65536
    IN IF next < 1000 THEN 1000 ELSE next

\* fn get_serial_num: the new value of the counter, which is also returned
get_serial_num(pid) ==
    LET next == (pid + 1) % 65536
    IN IF next < 1000 \/ next >= 65535 THEN 1000 ELSE next

\* Envelope whose length field counts the whole frame
Envelope_total_length(pid, cmd, payload) ==
    LET length2 == 9 + Len(payload)
        head == <<170, 170, (length2 \div 256) % 256, length2 % 256, 0,
                  (pid \div 256) % 256, pid % 256, (cmd \div 256) % 256, cmd % 256>>
        buf == head \o payload
    IN [buf EXCEPT ![5] = sum_calculation(SliceFrom(buf, 5))]

\* the envelope of start_encode_with_packet_id before garble_buffer
Envelope(pid, cmd, payload) ==
    LET length2 == 5 + Len(payload)
        head == <<170, 170, (length2 \div 256) % 256, length2 % 256, 0,
                  (pid \div 256) % 256, pid % 256, (cmd \div 256) % 256, cmd % 256>>
        buf == head \o payload
    IN [buf EXCEPT ![5] = sum_calculation(SliceFrom(buf, 5))]

\* start_encode_with_packet_id that takes a packet id of 0 as "not given"
start_encode_zero_is_auto(counter, model, is_use_packet_id) ==
    LET cmd == model.cmd % 65536
        payload == IF cmd = 17 THEN encode_read_payload_to_buffer(model.payloads)
                   ELSE encode_payload_to_buffer(model.payloads)
        given == is_use_packet_id /\ model.packet_id % 65536 # 0
        pid == IF given THEN model.packet_id % 65536 ELSE get_serial_num(counter)
        raw == Envelope(pid, cmd, payload)
    IN [packet_id |-> IF given THEN counter ELSE pid,
        cmd_data |-> raw,
        result |-> [cmd_key |-> [hi |-> cmd, lo |-> pid],
                    cmd_data |-> garble_buffer(raw),
                    cmd |-> cmd,
                    packet_id |-> pid]]

\* fn start_encode_with_packet_id: [packet_id, cmd_data, result], packet_id
\* being the encoder's counter after the call
start_encode_with_packet_id(counter, model, is_use_packet_id) ==
    LET cmd == model.cmd % 65536
        payload == IF cmd = 17 THEN encode_read_payload_to_buffer(model.payloads)
                   ELSE encode_payload_to_buffer(model.payloads)
        pid == IF is_use_packet_id THEN model.packet_id % 65536
               ELSE get_serial_num(counter)
        raw == Envelope(pid, cmd, payload)
    IN [packet_id |-> IF is_use_packet_id THEN counter ELSE pid,
        cmd_data |-> raw,
        result |-> [cmd_key |-> [hi |-> cmd, lo |-> pid],
                    cmd_data |-> garble_buffer(raw),
                    cmd |-> cmd,
                    packet_id |-> pid]]

\* fn start_encode
start_encode(counter, model) == start_encode_with_packet_id(counter, model, FALSE)

\* the envelope of start_encode_transparent before garble_buffer
TransparentEnvelope(pid, cmd, payload) ==
    LET length2 == 5 + Len(payload)
        head == <<170, 170, (length2 \div 256) % 256, length2 % 256, 0,
                  (pid \div 256) % 256, pid % 256, (cmd \div 256) % 256, cmd % 256>>
        buf == head \o payload
    IN [buf EXCEPT ![5] = sum_calculation(SliceFrom(buf, 5))]

\* fn start_encode_transparent
start_encode_transparent(counter, model) ==
    LET cmd == model.cmd
        pid == IF model.packet_id.some THEN model.packet_id.id % 65536
               ELSE get_serial_num(counter)
        raw == TransparentEnvelope(pid, cmd, model.payloads)
    IN [packet_id |-> IF model.packet_id.some THEN counter ELSE pid,
        cmd_data |-> raw,
        result |-> [cmd_key |-> [hi |-> cmd, lo |-> pid],
                    cmd_data |-> garble_buffer(raw),
                    cmd |-> cmd,
                    packet_id |-> pid]]

(***************************************************************************)
(* Decoder (decode.rs).                                                    *)
(***************************************************************************)
\* enum DecodeResult
Success(m) == [kind |-> "Success", model |-> m]
Transparent(m) == [kind |-> "Transparent", model |-> m]
Incomplete == [kind |-> "Incomplete"]
Error(e) == [kind |-> "Error", msg |-> e]

\* the Err strings of crc_security and the message of packet_slice
ErrTooShort == "Data too short"
ErrCmd == "cmd invalid"
ErrCrc == "crc error"
ErrNoHeader == "Invalid data - no packet header found"

\* Option values of the parse_* functions
NoneOpt == [some |-> FALSE]

\* fn read_byte_array_short
read_byte_array_short(data) ==
    IF Len(data) < 2 THEN 0 ELSE At(data, 0) * 256 + At(data, 1)

\* fn read_byte_array_long: the bytes right-aligned in 8, which is the i64
read_byte_array_long(data) == Zeros(8 - Len(data)) \o data

RECURSIVE SpliceLoop_advance(_, _)
\* SpliceLoop that steps over the 0xAA whose 0x55 it removed
SpliceLoop_advance(arr, i) ==
    IF ~(i < Len(arr) - 1) THEN arr
    ELSE IF At(arr, i) = B_AA /\ At(arr, i + 1) = B_55
         THEN SpliceLoop_advance(Remove(arr, i + 1), i + 1)
         ELSE SpliceLoop_advance(arr, i + 1)

RECURSIVE SpliceLoop(_, _)
\* the while loop of splice_buffer from index i on
SpliceLoop(arr, i) ==
    IF ~(i < Len(arr) - 1) THEN arr
    ELSE IF At(arr, i) = B_AA /\ At(arr, i + 1) = B_55
         THEN SpliceLoop(Remove(arr, i + 1), i)
         ELSE SpliceLoop(arr, i + 1)

\* fn splice_buffer, for at least one byte
splice_buffer(bytes) == SpliceLoop(bytes, 0)

RECURSIVE FindFrom(_, _, _)
\* the for loop of find_subsequence from index i on; -1 is None
FindFrom(data, pattern, i) ==
    IF i > Len(data) - Len(pattern) THEN -1
    ELSE IF Slice(data, i, i + Len(pattern)) = pattern THEN i
    ELSE FindFrom(data, pattern, i + 1)

\* fn find_subsequence; -1 is None
find_subsequence(data, pattern) ==
    IF Len(pattern) > Len(data) THEN -1 ELSE FindFrom(data, pattern, 0)

\* DecodeTools.stbuf
stbuf == <<170, 170>>

\* fn parse_binary
parse_binary(payload, offset) ==
    IF offset + 1 >= Len(payload) THEN NoneOpt
    ELSE LET ttlv_len == read_byte_array_short(Slice(payload, offset, offset + 2))
             offset2 == offset + 2
         IN IF ttlv_len > 0 /\ offset2 + ttlv_len <= Len(payload)
            THEN [some |-> TRUE,
                  data |-> Slice(payload, offset2, offset2 + ttlv_len),
                  offset |-> offset2 + ttlv_len]
            ELSE NoneOpt

\* fn parse_enum_value.  -(enum_value as i64) wraps for i64::MIN in a release
\* build (and stops a debug build).  A Float is held as final_value and amp,
\* its value being final_value / 10^amp.
parse_enum_value(payload, offset) ==
    IF offset >= Len(payload) THEN NoneOpt
    ELSE LET lenbuf == At(payload, offset)
             offset2 == offset + 1
             negative == lenbuf \div 128
             amp == (lenbuf \div 8) % 16
             tmp_len == (lenbuf % 8) + 1
         IN IF offset2 + tmp_len > Len(payload) THEN NoneOpt
            ELSE LET buf == Slice(payload, offset2, offset2 + tmp_len)
                     enum_value == read_byte_array_long(buf)
                     final_value == IF negative > 0 THEN NegI64(enum_value)
                                    ELSE enum_value
                 IN [some |-> TRUE,
                     value |-> IF amp > 0 THEN VFloat(final_value, amp)
                               ELSE VInteger(final_value),
                     offset |-> offset2 + tmp_len]

\* TTLVData::new(ttlv_id, ttlv_type, true) with its value assigned
Decoded(ttlv_id, ttlv_type, value) ==
    [id |-> ttlv_id, type_id |-> ttlv_type, ttlv |-> TRUE, value |-> value]

RECURSIVE parse_struct(_, _), ParseStructLoop(_, _, _, _)
\* the while loop of parse_struct: [offset, data]
ParseStructLoop(payload, offset, remaining, stc_elements) ==
    IF ~(remaining > 0) \/ offset + 1 >= Len(payload)
    THEN [offset |-> offset, data |-> stc_elements]
    ELSE LET ttlv_head == read_byte_array_short(Slice(payload, offset, offset + 2))
             off == offset + 2
             ttlv_id == (ttlv_head \div 8) % 8192
             ttlv_type == ttlv_head % 8
         IN CASE ttlv_type \in {3, 5} ->
                   LET p_obj == parse_binary(payload, off)
                   IN IF p_obj.some
                      THEN ParseStructLoop(payload, p_obj.offset, remaining - 1,
                               Append(stc_elements,
                                      Decoded(ttlv_id, ttlv_type, VBinary(p_obj.data))))
                      ELSE ParseStructLoop(payload, off + 2, remaining - 1, stc_elements)
              [] ttlv_type \in {0, 1} ->
                   ParseStructLoop(payload, off, remaining - 1,
                       Append(stc_elements,
                              Decoded(ttlv_id, ttlv_type, VBoolean(ttlv_type = 1))))
              [] ttlv_type = 2 ->
                   LET num == parse_enum_value(payload, off)
                   IN IF num.some
                      THEN ParseStructLoop(payload, num.offset, remaining - 1,
                               Append(stc_elements, Decoded(ttlv_id, ttlv_type, num.value)))
                      ELSE ParseStructLoop(payload, off, remaining - 1, stc_elements)
              [] ttlv_type = 4 ->
                   LET st == parse_struct(payload, off)
                   IN IF st.some
                      THEN ParseStructLoop(payload, st.offset, remaining - 1,
                               Append(stc_elements,
                                      Decoded(ttlv_id, ttlv_type, VStruct(st.data))))
                      ELSE ParseStructLoop(payload, off, remaining - 1, stc_elements)
              [] OTHER -> ParseStructLoop(payload, off, remaining - 1, stc_elements)

\* fn parse_struct
parse_struct(payload, offset) ==
    IF offset + 1 >= Len(payload) THEN NoneOpt
    ELSE LET ele_num == read_byte_array_short(Slice(payload, offset, offset + 2))
             r == ParseStructLoop(payload, offset + 2, ele_num, <<>>)
         IN [some |-> TRUE, offset |-> r.offset, data |-> r.data]

\* PayloadField with a failed parse_binary skipping four bytes
PayloadField_bin_skip4(payload, offset) ==
    LET ttlv_head == read_byte_array_short(Slice(payload, offset, offset + 2))
        off == offset + 2
        ttlv_id == (ttlv_head \div 8) % 8192
        ttlv_type == ttlv_head % 8
        none(o) == [offset |-> o, data |-> <<>>]
        bin(p_obj) ==
            IF p_obj.some
            THEN [offset |-> p_obj.offset,
                  data |-> <<Decoded(ttlv_id, ttlv_type, VBinary(p_obj.data))>>]
            ELSE none(off + 4)
        enum(num) ==
            IF num.some
            THEN [offset |-> num.offset,
                  data |-> <<Decoded(ttlv_id, ttlv_type, num.value)>>]
            ELSE none(off)
        struct(st) ==
            IF st.some
            THEN [offset |-> st.offset,
                  data |-> <<Decoded(ttlv_id, ttlv_type, VStruct(st.data))>>]
            ELSE none(off)
    IN CASE ttlv_type \in {3, 5} -> bin(parse_binary(payload, off))
         [] ttlv_type \in {0, 1} ->
              [offset |-> off,
               data |-> <<Decoded(ttlv_id, ttlv_type, VBoolean(ttlv_type = 1))>>]
         [] ttlv_type = 2 -> enum(parse_enum_value(payload, off))
         [] ttlv_type = 4 -> struct(parse_struct(payload, off))
         [] OTHER -> none(off)

\* one iteration of the while loop of parse_payload, from its head at
\* offset: the offset it leaves and the field it pushes to payload_data
PayloadField(payload, offset) ==
    LET ttlv_head == read_byte_array_short(Slice(payload, offset, offset + 2))
        off == offset + 2
        ttlv_id == (ttlv_head \div 8) % 8192
        ttlv_type == ttlv_head % 8
        none(o) == [offset |-> o, data |-> <<>>]
        bin(p_obj) ==
            IF p_obj.some
            THEN [offset |-> p_obj.offset,
                  data |-> <<Decoded(ttlv_id, ttlv_type, VBinary(p_obj.data))>>]
            ELSE none(off + 2)
        enum(num) ==
            IF num.some
            THEN [offset |-> num.offset,
                  data |-> <<Decoded(ttlv_id, ttlv_type, num.value)>>]
            ELSE none(off)
        struct(st) ==
            IF st.some
            THEN [offset |-> st.offset,
                  data |-> <<Decoded(ttlv_id, ttlv_type, VStruct(st.data))>>]
            ELSE none(off)
    IN CASE ttlv_type \in {3, 5} -> bin(parse_binary(payload, off))
         [] ttlv_type \in {0, 1} ->
              [offset |-> off,
               data |-> <<Decoded(ttlv_id, ttlv_type, VBoolean(ttlv_type = 1))>>]
         [] ttlv_type = 2 -> enum(parse_enum_value(payload, off))
         [] ttlv_type = 4 -> struct(parse_struct(payload, off))
         [] OTHER -> none(off)

RECURSIVE ParsePayloadLoop(_, _, _)
\* the while loop of parse_payload: the fields pushed to payload_data
ParsePayloadLoop(payload, offset, payload_data) ==
    LET next(f) == ParsePayloadLoop(payload, f.offset, payload_data \o f.data)
    IN IF ~(offset < Len(payload)) \/ offset + 1 >= Len(payload) THEN payload_data
       ELSE next(PayloadField(payload, offset))

RECURSIVE PayloadOffsets(_, _)
\* the offsets at which the while loop of parse_payload tests its condition
PayloadOffsets(payload, offset) ==
    IF ~(offset < Len(payload)) \/ offset + 1 >= Len(payload) THEN <<offset>>
    ELSE <<offset>> \o PayloadOffsets(payload, PayloadField(payload, offset).offset)

RECURSIVE StructOffsets(_, _, _)
\* the offsets at which the while loop of parse_struct tests its condition,
\* entered at offset with ele_num = remaining
StructOffsets(payload, offset, remaining) ==
    IF ~(remaining > 0) \/ offset + 1 >= Len(payload) THEN <<offset>>
    ELSE <<offset>> \o StructOffsets(payload,
                           ParseStructLoop(payload, offset, 1, <<>>).offset,
                           remaining - 1)

\* packet_id and cmd as parse_payload, parse_transparent_payload and
\* crc_security read them
FramePacketId(data) ==
    IF Len(data) >= 7 THEN read_byte_array_short(Slice(data, 5, 7)) ELSE 0

\* FrameCmd that reads a cmd out of a frame of 8 bytes
FrameCmd_len8(data) ==
    IF Len(data) >= 9 THEN read_byte_array_short(Slice(data, 7, 9))
    ELSE IF Len(data) = 8 THEN read_byte_array_short(Slice(data, 6, 8)) ELSE 0

FrameCmd(data) ==
    IF Len(data) >= 9 THEN read_byte_array_short(Slice(data, 7, 9)) ELSE 0

\* fn parse_payload
parse_payload(data) ==
    LET payload == IF Len(data) > 9 THEN SliceFrom(data, 9) ELSE <<>>
    IN [cmd |-> FrameCmd(data),
        packet_id |-> FramePacketId(data),
        payloads |-> IF payload # <<>> THEN ParsePayloadLoop(payload, 0, <<>>) ELSE <<>>]

\* fn parse_transparent_payload
parse_transparent_payload(data) ==
    [cmd |-> FrameCmd(data) % 65536,
     packet_id |-> SomeId(FramePacketId(data)),
     payloads |-> IF Len(data) > 9 THEN SliceFrom(data, 9) ELSE <<>>]

\* crc_security that does not compare the checksums
crc_security_no_sum(data) ==
    IF Len(data) < 5 THEN Error(ErrTooShort)
    ELSE LET cmd == FrameCmd(data)
         IN IF cmd = 0 \/ cmd = 65535 THEN Error(ErrCmd)
            ELSE IF cmd = 36 THEN Transparent(parse_transparent_payload(data))
            ELSE Success(parse_payload(data))

\* crc_security that rejects cmd 0 only
crc_security_zero_only(data) ==
    IF Len(data) < 5 THEN Error(ErrTooShort)
    ELSE LET n_xor == sum_calculation(SliceFrom(data, 5))
             old_xor == At(data, 4)
             cmd == FrameCmd(data)
         IN IF n_xor = old_xor
            THEN IF cmd = 0 THEN Error(ErrCmd)
                 ELSE IF cmd = 36 THEN Transparent(parse_transparent_payload(data))
                 ELSE Success(parse_payload(data))
            ELSE Error(ErrCrc)

\* fn crc_security, with Err(e) already turned into DecodeResult::Error(e) as
\* packet_slice does
crc_security(data) ==
    IF Len(data) < 5 THEN Error(ErrTooShort)
    ELSE LET n_xor == sum_calculation(SliceFrom(data, 5))
             old_xor == At(data, 4)
             cmd == FrameCmd(data)
         IN IF n_xor = old_xor
            THEN IF cmd = 0 \/ cmd = 65535 THEN Error(ErrCmd)
                 ELSE IF cmd = 36 THEN Transparent(parse_transparent_payload(data))
                 ELSE Success(parse_payload(data))
            ELSE Error(ErrCrc)

RECURSIVE PacketSliceLoop_drop_aa(_)
\* PacketSliceLoop that also empties the accumulator when no header is found
\* and the last byte is 0xAA
PacketSliceLoop_drop_aa(st) ==
    LET buf == st.receive_data
    IN IF buf = <<>> THEN st
       ELSE IF Len(buf) < 9
       THEN [st EXCEPT !.results = Append(st.results, Incomplete)]
       ELSE LET start_index == find_subsequence(buf, stbuf)
            IN IF start_index >= 0
               THEN LET payload_len ==
                            IF start_index + 3 < Len(buf)
                            THEN read_byte_array_short(
                                     Slice(buf, start_index + 2, start_index + 4))
                            ELSE 0
                    IN IF Len(buf) < start_index + payload_len + 4
                       THEN [st EXCEPT !.receive_data = SliceFrom(buf, start_index),
                                       !.results = Append(st.results, Incomplete)]
                       ELSE LET n_buf_copy ==
                                    Slice(buf, start_index, start_index + payload_len + 4)
                            IN PacketSliceLoop_drop_aa(
                                   [receive_data |->
                                        SliceFrom(buf, start_index + payload_len + 4),
                                    spliced |-> st.spliced,
                                    results |-> Append(st.results, crc_security(n_buf_copy)),
                                    located |-> Append(st.located,
                                        [before |-> buf,
                                         frame |-> n_buf_copy,
                                         after |-> SliceFrom(buf,
                                                       start_index + payload_len + 4)])])
               ELSE IF At(buf, Len(buf) - 1) = 170
                    THEN [st EXCEPT !.receive_data = <<>>,
                                    !.results = Append(st.results, Incomplete)]
                    ELSE [st EXCEPT !.receive_data = <<>>,
                                    !.results = Append(st.results, Error(ErrNoHeader))]

RECURSIVE PacketSliceLoop(_)
\* the while loop of packet_slice; st = [receive_data, spliced, results,
\* located], spliced being the accumulator as splice_buffer left it
PacketSliceLoop(st) ==
    LET buf == st.receive_data
    IN IF buf = <<>> THEN st
       ELSE IF Len(buf) < 9
       THEN [st EXCEPT !.results = Append(st.results, Incomplete)]
       ELSE LET start_index == find_subsequence(buf, stbuf)
            IN IF start_index >= 0
               THEN LET payload_len ==
                            IF start_index + 3 < Len(buf)
                            THEN read_byte_array_short(
                                     Slice(buf, start_index + 2, start_index + 4))
                            ELSE 0
                    IN IF Len(buf) < start_index + payload_len + 4
                       THEN [st EXCEPT !.receive_data = SliceFrom(buf, start_index),
                                       !.results = Append(st.results, Incomplete)]
                       ELSE LET n_buf_copy ==
                                    Slice(buf, start_index, start_index + payload_len + 4)
                            IN PacketSliceLoop(
                                   [receive_data |->
                                        SliceFrom(buf, start_index + payload_len + 4),
                                    spliced |-> st.spliced,
                                    results |-> Append(st.results, crc_security(n_buf_copy)),
                                    located |-> Append(st.located,
                                        [before |-> buf,
                                         frame |-> n_buf_copy,
                                         after |-> SliceFrom(buf,
                                                       start_index + payload_len + 4)])])
               ELSE IF At(buf, Len(buf) - 1) = 170
                    THEN [st EXCEPT !.receive_data = <<170>>,
                                    !.results = Append(st.results, Incomplete)]
                    ELSE [st EXCEPT !.receive_data = <<>>,
                                    !.results = Append(st.results, Error(ErrNoHeader))]

\* packet_slice that appends Incomplete when its loop has emptied the
\* accumulator
packet_slice_empty_incomplete(buffer, data) ==
    LET st == PacketSliceLoop([receive_data |-> splice_buffer(buffer \o data),
                               spliced |-> splice_buffer(buffer \o data),
                               results |-> <<>>,
                               located |-> <<>>])
    IN IF st.receive_data = <<>> /\ st.located # <<>>
          /\ Len(st.results) = Len(st.located)
       THEN [st EXCEPT !.results = Append(st.results, Incomplete)]
       ELSE st

\* packet_slice that keeps the bytes before the header of a frame it waits for
packet_slice_keep_prefix(buffer, data) ==
    LET keep(st) ==
            IF st.results = <<Incomplete>> THEN [st EXCEPT !.receive_data = st.spliced]
            ELSE st
    IN keep(PacketSliceLoop([receive_data |-> splice_buffer(buffer \o data),
                             spliced |-> splice_buffer(buffer \o data),
                             results |-> <<>>,
                             located |-> <<>>]))

\* packet_slice that keeps the accumulator when no header is found
packet_slice_keep_garbage(buffer, data) ==
    LET keep(st) ==
            IF st.results # <<>> /\ st.results[Len(st.results)] = Error(ErrNoHeader)
            THEN [st EXCEPT !.receive_data = <<1>>]
            ELSE st
    IN keep(PacketSliceLoop([receive_data |-> splice_buffer(buffer \o data),
                             spliced |-> splice_buffer(buffer \o data),
                             results |-> <<>>,
                             located |-> <<>>]))

\* fn packet_slice, for a call that leaves at least one byte to splice_buffer
packet_slice(buffer, data) ==
    PacketSliceLoop([receive_data |-> splice_buffer(buffer \o data),
                     spliced |-> splice_buffer(buffer \o data),
                     results |-> <<>>,
                     located |-> <<>>])

(***************************************************************************)
(* Inputs: the command models, transparent models and byte strings the     *)
(* environment uses.                                                       *)
(***************************************************************************)
Models == <<
    \* Random request 0x7032, no payload (ble/src/main.rs writre_random_command)
    TtlvCommandModel_new(28722, 1000),
    \* 0x7016 with Int(1)
    add_payload(TtlvCommandModel_new(28694, 1001),
                with_integer(TTLVData_new(1, 2, TRUE), I64(1))),
    \* 0x7033 with a Bin holding AA AA, packet id 0
    add_payload(TtlvCommandModel_new(28723, 0),
                with_binary(TTLVData_new(1, 3, TRUE), <<170, 170>>)),
    \* 0x7010 with Int(0xAA55)
    add_payload(TtlvCommandModel_new(28688, 1001),
                with_integer(TTLVData_new(11, 2, TRUE), I64(43605))),
    \* 0x0013 with a Struct of one Bool
    add_payload(TtlvCommandModel_new(19, 1002),
                with_struct(TTLVData_new(5, 4, TRUE),
                            <<with_boolean(TTLVData_new(1, 0, TRUE), TRUE)>>)),
    \* read request 0x0011 for id 0x1001
    add_payload(TtlvCommandModel_new(17, 1000), TTLVData_new(4097, 0, FALSE)),
    \* 0xFFFE with two Bools, packet id wider than 16 bits
    add_payload(add_payload(TtlvCommandModel_new(65534, 65543),
                            with_boolean(TTLVData_new(2, 0, TRUE), FALSE)),
                with_boolean(TTLVData_new(8191, 0, TRUE), TRUE)),
    \* 0x7016 with Int(-2) and a Bin of two bytes
    add_payload(add_payload(TtlvCommandModel_new(28694, 1001),
                            with_integer(TTLVData_new(3, 2, TRUE), I64(-2))),
                with_binary(TTLVData_new(4, 3, TRUE), <<1, 2>>))
>>

\* the models given to the encoder alone
EncModels == Models \o <<
    \* read request 0x0011 whose fields differ in flag, type and value
    add_payload(add_payload(add_payload(TtlvCommandModel_new(17, 1001),
                                        TTLVData_new(4097, 0, FALSE)),
                            with_boolean(TTLVData_new(4098, 0, TRUE), TRUE)),
                with_integer(TTLVData_new(3, 2, FALSE), I64(42))),
    \* 0x7032 with a field without value between fields with one, the first of
    \* them holding a value although it is flagged as id only
    add_payload(add_payload(add_payload(TtlvCommandModel_new(28722, 1001),
                                        with_binary(TTLVData_new(4102, 3, FALSE), <<1, 2>>)),
                            with_boolean(TTLVData_new(4098, 0, TRUE), TRUE)),
                TTLVData_new(4097, 0, FALSE))
>>

TransparentModels == <<
    \* transparent models: 0x0024 with a given packet id, and with none
    [TtlvTransparentModel_new(36) EXCEPT !.packet_id = SomeId(65543), !.payloads = <<153>>],
    [TtlvTransparentModel_new(36) EXCEPT !.payloads = <<170, 1>>],
    \* a payload that ends in AA 55
    [TtlvTransparentModel_new(36) EXCEPT !.packet_id = SomeId(5), !.payloads = <<1, 170, 85>>]
>>

\* a transparent model whose payload makes the length field 0xAA00
LongPayloadLen == 43515
TransparentLong ==
    [TtlvTransparentModel_new(36) EXCEPT !.packet_id = SomeId(7),
                                         !.payloads = Zeros(LongPayloadLen)]

\* byte strings a peer may put on the channel
RawStrings == <<
    <<170, 170, 0, 5, 18, 3, 232, 112, 50>>,       \* checksum 0x12, sum is 0x8D
    <<170, 170, 0, 5, 235, 3, 232, 0, 0>>,         \* cmd 0, checksum right
    <<170, 170, 0, 5, 255, 0, 1, 255, 255>>,       \* cmd 0xFFFF, checksum right
    <<170, 170, 0, 3, 235, 3, 232>>,               \* length 3: no cmd field
    <<170, 170, 0, 0, 1, 2, 3, 4, 5>>,             \* length 0, then five bytes
    <<1, 2, 3, 4, 5, 6, 7, 8, 9>>,                 \* no preamble
    <<170, 170, 0, 6, 196, 0, 7, 0, 36, 153>>,     \* cmd 0x0024
    <<170, 170, 0, 1, 0>>,                         \* length 1: a checksum of nothing
    <<170, 170, 0, 4, 36, 0, 0, 36>>,              \* length 4: half a cmd field
    <<170, 170, 0, 11, 0>>                         \* length 11, cut after the checksum
>>

(***************************************************************************)
(* State machine.                                                          *)
(***************************************************************************)
(***************************************************************************)
(* The advertisement parser (model/src/quec_ble_device.rs and             *)
(* try_get_quec_device of ble/src/main.rs).  A String is the sequence of   *)
(* its characters, each the number of its Unicode scalar value.            *)
(***************************************************************************)
HexDigits == <<48, 49, 50, 51, 52, 53, 54, 55, 56, 57, 97, 98, 99, 100, 101, 102>>

\* QuecBLEDevice::bytes_to_hex_string: format!("{:02x}", b) of every byte, joined
bytes_to_hex_string(bytes) ==
    SubSeq([i \in 1..(2 * Len(bytes)) |->
               IF i % 2 = 1 THEN HexDigits[(bytes[(i + 1) \div 2] \div 16) + 1]
               ELSE HexDigits[(bytes[i \div 2] % 16) + 1]],
           1, 2 * Len(bytes))

\* str::to_uppercase of an ASCII string
to_uppercase(str) ==
    SubSeq([i \in 1..Len(str) |-> IF str[i] \in 97..122 THEN str[i] - 32 ELSE str[i]],
           1, Len(str))

\* String::from_utf8_lossy on bytes that are ASCII or can start no UTF-8
\* sequence: every byte above 0x7F becomes U+FFFD
from_utf8_lossy(bytes) ==
    SubSeq([i \in 1..Len(bytes) |-> IF bytes[i] < 128 THEN bytes[i] ELSE 65533],
           1, Len(bytes))

\* QuecBLEDevice::combine_bytes_to_short
combine_bytes_to_short(high, low) == high * 256 + (low % 256)

\* QuecBLEDevice::check_byte_value
check_byte_value(value, bit) == (value \div (2 ^ bit)) % 2 = 1

\* the closure given to catch_unwind in decode_data: the descriptor, or a
\* panic when an index or a slice bound is past the end of data
DecodeClosure(data) ==
    LET len == Len(data)
        version == combine_bytes_to_short(At(data, 0), At(data, 1))
        pk_length == At(data, 2)
        dk_length == At(data, 3 + pk_length)
        dk_start == 4 + pk_length
        dk_end == dk_start + dk_length
        hex == bytes_to_hex_string(Slice(data, dk_start, dk_end))
        flags == IF len >= 6 + pk_length + dk_length
                 THEN combine_bytes_to_short(At(data, 6 + pk_length + dk_length),
                                             At(data, 5 + pk_length + dk_length))
                 ELSE 0
        trimmed == IF check_byte_value(flags, 8) /\ hex # <<>> /\ hex[Len(hex)] = 48
                   THEN SubSeq(hex, 1, Len(hex) - 1) ELSE hex
        dk == IF check_byte_value(flags, 12) THEN to_uppercase(trimmed) ELSE trimmed
    IN IF \/ 3 + pk_length > len                       \* &data[3..3 + pk_length]
          \/ 3 + pk_length >= len                      \* data[3 + pk_length]
          \/ dk_end > len                              \* &data[dk_start..dk_end]
          \/ 4 + pk_length + dk_length >= len          \* data[4 + pk_length + dk_length]
          \/ /\ len >= 6 + pk_length + dk_length       \* data[6 + pk_length + dk_length]
             /\ 6 + pk_length + dk_length >= len
       THEN [panic |-> TRUE]
       ELSE [panic |-> FALSE,
             device |-> [id |-> <<>>, name |-> <<>>, version |-> version,
                         product_key |-> from_utf8_lossy(Slice(data, 3, 3 + pk_length)),
                         device_key |-> dk, mac |-> <<>>,
                         device_status |-> At(data, 4 + pk_length + dk_length),
                         tag |-> "QUEC", is_cl_dk |-> FALSE, is_wifi_config |-> FALSE,
                         is_bind |-> FALSE, is_enable_bind |-> FALSE,
                         capabilities_bitmask |-> flags, endpoint_type |-> 0,
                         is_old_device |-> FALSE, data |-> data]]

\* QuecBLEDevice::decode_data
decode_data(bytes) ==
    IF Len(bytes) < 19 THEN [ok |-> FALSE, err |-> "Data too short"]
    ELSE LET data == SliceFrom(bytes, 2)
             c == DecodeClosure(data)
         IN IF c.panic
            THEN [ok |-> FALSE, err |-> "Decode failed for data",
                  data |-> bytes_to_hex_string(data)]
            ELSE [ok |-> TRUE,
                  device |-> [c.device EXCEPT
                      !.is_cl_dk = check_byte_value(c.device.capabilities_bitmask, 0),
                      !.is_wifi_config = check_byte_value(c.device.capabilities_bitmask, 1),
                      !.is_bind = check_byte_value(c.device.capabilities_bitmask, 2),
                      !.is_enable_bind = check_byte_value(c.device.capabilities_bitmask, 3),
                      !.endpoint_type = (c.device.capabilities_bitmask \div 16) % 16,
                      !.is_old_device = check_byte_value(c.device.capabilities_bitmask, 8)]]

\* try_get_quec_device without the check of the 'E','C' tag
try_get_quec_device_no_tag(name, address, d) ==
    IF d = <<>> THEN [kind |-> "None", printed |-> <<>>]
    ELSE IF ~(Len(d[1]) >= 19)
    THEN [kind |-> "None", printed |-> <<>>]
    ELSE LET r == decode_data(d[1])
         IN IF r.ok
            THEN [kind |-> "Some",
                  device |-> [r.device EXCEPT
                      !.name = IF name # <<>> THEN name[1] ELSE r.device.name,
                      !.mac = address]]
            ELSE [kind |-> "None", printed |-> <<r.err>>]

\* try_get_quec_device; d is manufacturer_data.get(&0x5551) and name the
\* Option<String>, each <<>> for None and <<x>> for Some(x); printed holds the
\* error of decode_data it prints
try_get_quec_device(name, address, d) ==
    IF d = <<>> THEN [kind |-> "None", printed |-> <<>>]
    ELSE IF ~(Len(d[1]) >= 19 /\ At(d[1], 0) = 69 /\ At(d[1], 1) = 67)
    THEN [kind |-> "None", printed |-> <<>>]
    ELSE LET r == decode_data(d[1])
         IN IF r.ok
            THEN [kind |-> "Some",
                  device |-> [r.device EXCEPT
                      !.name = IF name # <<>> THEN name[1] ELSE r.device.name,
                      !.mac = address]]
            ELSE [kind |-> "None", printed |-> <<r.err>>]

\* the String "3EB24BC7957DB49D"
DefaultBindingKey ==
    <<51, 69, 66, 50, 52, 66, 67, 55, 57, 53, 55, 68, 66, 52, 57, 68>>

\* main after tokio::spawn of both tasks: the notify task at notify.next(),
\* the write task at its first sleep, main at tokio::join!
SessionSpawned ==
    [pc |-> [notify |-> "next", write |-> "sleep"],
     retries |-> [notify |-> 2, write |-> 2],
     attempts |-> [notify |-> 0, write |-> 0],
     res |-> [notify |-> "none", write |-> "none"],
     busy |-> {},
     delivered |-> 0,
     main |-> "join"]

\* no advertisement seen yet; the notify task as spawned
\* (ble/src/main.rs: let mut binding_key = "3EB24BC7957DB49D")
AppInit ==
    /\ manufacturer_data = <<>>
    /\ quec_device = [kind |-> "unset"]
    /\ binding_key = DefaultBindingKey
    /\ written = <<>>
    /\ task = "running"
    /\ random = <<>>
    /\ session = SessionSpawned

Init ==
    /\ packet_id = 0
    /\ result = EncodeResult_new
    /\ cmd_data = <<>>
    /\ encoded = [kind |-> "none"]
    /\ serial = 0
    /\ calls = 0
    /\ receive_data = <<>>
    /\ unstuffed = <<>>
    /\ results = <<>>
    /\ located = <<>>
    /\ wire = <<>>
    /\ sent = <<>>
    /\ emitted = <<>>
    /\ slices = 0
    /\ AppInit

RECURSIVE Written(_)
\* total number of bytes written to the channel
Written(items) ==
    IF items = <<>> THEN 0 ELSE Len(Head(items).bytes) + Written(Tail(items))

\* the channel accepts one more item of these bytes
Fits(bytes) == Len(sent) < MaxItems /\ Written(sent) + Len(bytes) <= MaxWire

\* the effect of a start_encode* call r on the encoder, auto telling whether
\* it called get_serial_num
Encoder(r, args, auto) ==
    /\ packet_id' = r.packet_id
    /\ result' = r.result
    /\ cmd_data' = r.cmd_data
    /\ encoded' = args
    /\ serial' = IF auto THEN r.packet_id ELSE serial
    /\ calls' = IF auto THEN calls + 1 ELSE calls

\* EncodeTools::get_serial_num called on its own
GetSerialNum ==
    /\ calls < MaxCalls
    /\ packet_id' = get_serial_num(packet_id)
    /\ serial' = get_serial_num(packet_id)
    /\ calls' = calls + 1
    /\ UNCHANGED <<appVars, result, cmd_data, encoded, chanVars, decVars>>

\* EncodeTools::start_encode_with_packet_id(model, is_use_packet_id)
StartEncode(m, is_use_packet_id) ==
    /\ is_use_packet_id \/ calls < MaxAuto
    /\ Encoder(start_encode_with_packet_id(packet_id, EncModels[m], is_use_packet_id),
               [kind |-> "cmd", model |-> EncModels[m], reuse |-> is_use_packet_id],
               ~is_use_packet_id)
    /\ UNCHANGED <<appVars, chanVars, decVars>>

\* EncodeTools::start_encode_transparent(model)
StartEncodeTransparent(t) ==
    /\ TransparentModels[t].packet_id.some \/ calls < MaxAuto
    /\ Encoder(start_encode_transparent(packet_id, TransparentModels[t]),
               [kind |-> "transparent", model |-> TransparentModels[t],
                reuse |-> TransparentModels[t].packet_id.some],
               ~TransparentModels[t].packet_id.some)
    /\ UNCHANGED <<appVars, chanVars, decVars>>

\* start_encode_transparent of the long payload, as the first call on a new
\* encoder (with a given packet id its output does not depend on the encoder)
StartEncodeLong ==
    /\ encoded.kind = "none"
    /\ Encoder(start_encode_transparent(packet_id, TransparentLong),
               [kind |-> "transparent", model |-> TransparentLong, reuse |-> TRUE],
               FALSE)
    /\ UNCHANGED <<appVars, chanVars, decVars>>

\* a command is encoded and its bytes are written to the channel
\* (ble/src/main.rs write_*_command: start_encode*, then write_to_characteristic)
SendCommand(m, is_use_packet_id) ==
    LET r == start_encode_with_packet_id(packet_id, Models[m], is_use_packet_id)
    IN /\ Fits(r.result.cmd_data)
       /\ Encoder(r, [kind |-> "cmd", model |-> Models[m], reuse |-> is_use_packet_id],
                  ~is_use_packet_id)
       /\ wire' = wire \o r.result.cmd_data
       /\ sent' = Append(sent, [kind |-> "cmd", model |-> Models[m],
                                reuse |-> is_use_packet_id,
                                pid |-> r.result.packet_id,
                                bytes |-> r.result.cmd_data])
       /\ UNCHANGED <<decVars, appVars>>

\* a transparent frame is encoded and its bytes are written to the channel
SendTransparent(t) ==
    LET r == start_encode_transparent(packet_id, TransparentModels[t])
    IN /\ Fits(r.result.cmd_data)
       /\ Encoder(r, [kind |-> "transparent", model |-> TransparentModels[t],
                      reuse |-> TransparentModels[t].packet_id.some],
                  ~TransparentModels[t].packet_id.some)
       /\ wire' = wire \o r.result.cmd_data
       /\ sent' = Append(sent, [kind |-> "transparent", model |-> TransparentModels[t],
                                bytes |-> r.result.cmd_data])
       /\ UNCHANGED <<decVars, appVars>>

\* the peer writes a byte string of its own to the channel
Inject(k) ==
    /\ Fits(RawStrings[k])
    /\ wire' = wire \o RawStrings[k]
    /\ sent' = Append(sent, [kind |-> "raw", bytes |-> RawStrings[k]])
    /\ UNCHANGED <<appVars, encVars, decVars>>

RECURSIVE NotIncomplete(_)
\* the events of a list other than Incomplete
NotIncomplete(events) ==
    IF events = <<>> THEN <<>>
    ELSE IF Head(events).kind = "Incomplete" THEN NotIncomplete(Tail(events))
    ELSE <<Head(events)>> \o NotIncomplete(Tail(events))

\* DecodeTools::packet_slice(data), data being the next n bytes of the channel
PacketSlice(n) ==
    LET r == packet_slice(receive_data, SubSeq(wire, 1, n))
    IN /\ receive_data' = r.receive_data
       /\ unstuffed' = r.spliced
       /\ results' = r.results
       /\ located' = r.located
       /\ emitted' = emitted \o NotIncomplete(r.results)
       /\ slices' = IF slices < 2 THEN slices + 1 ELSE 2
       /\ wire' = SubSeq(wire, n + 1, Len(wire))
       /\ UNCHANGED <<appVars, encVars, sent>>

\* the codec over the loopback channel
Next ==
    \/ \E m \in 1..Len(Models), reuse \in BOOLEAN : SendCommand(m, reuse)
    \/ \E t \in 1..Len(TransparentModels) : SendTransparent(t)
    \/ \E k \in 1..Len(RawStrings) : Inject(k)
    \/ \E n \in 1..Len(wire) : PacketSlice(n)

Spec == Init /\ [][Next]_vars

\* the encoder alone
NextEnc ==
    \/ \E m \in 1..Len(EncModels), reuse \in BOOLEAN : StartEncode(m, reuse)
    \/ \E t \in 1..Len(TransparentModels) : StartEncodeTransparent(t)
    \/ StartEncodeLong

SpecEnc == Init /\ [][NextEnc]_vars

\* the serial generator alone
NextSerial == GetSerialNum

SpecSerial == Init /\ [][NextSerial]_vars

\* byte strings of 2..MaxLen bytes over the two special bytes and one other
ByteStrings == UNION {[1..n -> {0, B_55, B_AA}] : n \in 2..MaxLen}

\* a byte string is about to be stuffed
InitStuff ==
    /\ packet_id = 0
    /\ result = EncodeResult_new
    /\ cmd_data \in ByteStrings
    /\ encoded = [kind |-> "bytes"]
    /\ serial = 0
    /\ calls = 0
    /\ receive_data = <<>>
    /\ unstuffed = <<>>
    /\ results = <<>>
    /\ located = <<>>
    /\ wire = <<>>
    /\ sent = <<>>
    /\ emitted = <<>>
    /\ slices = 0
    /\ AppInit

\* EncodeTools::garble_buffer(cmd_data)
GarbleBuffer ==
    /\ encoded.kind = "bytes"
    /\ result' = [result EXCEPT !.cmd_data = garble_buffer(cmd_data)]
    /\ encoded' = [kind |-> "garbled"]
    /\ UNCHANGED <<appVars, packet_id, cmd_data, serial, calls, chanVars, decVars>>

\* DecodeTools::splice_buffer of the stuffed bytes
SpliceBuffer ==
    /\ encoded.kind = "garbled"
    /\ receive_data' = splice_buffer(result.cmd_data)
    /\ encoded' = [kind |-> "spliced"]
    /\ UNCHANGED <<appVars, packet_id, result, cmd_data, serial, calls, chanVars,
                   unstuffed, results, located, emitted, slices>>

\* stuffing and un-stuffing alone
NextStuff == GarbleBuffer \/ SpliceBuffer

SpecStuff == InitStuff /\ [][NextStuff]_vars

\* commands without payload: their cmd values, the packet ids given with
\* them, and the values the encoder's counter may have reached before
\* an encoder whose counter has reached 0, 0xAA54 or 0xFFFE, and a new decoder
InitEmpty ==
    /\ packet_id \in {0, 43604, 65534}
    /\ result = EncodeResult_new
    /\ cmd_data = <<>>
    /\ encoded = [kind |-> "none"]
    /\ serial = packet_id
    /\ calls = IF packet_id = 0 THEN 0 ELSE packet_id - 999
    /\ receive_data = <<>>
    /\ unstuffed = <<>>
    /\ results = <<>>
    /\ located = <<>>
    /\ wire = <<>>
    /\ sent = <<>>
    /\ emitted = <<>>
    /\ slices = 0
    /\ AppInit

\* a command without payload is encoded and written to the channel
\* (ble/src/main.rs writre_random_command)
SendEmpty(cmd, pid, is_use_packet_id) ==
    LET model == TtlvCommandModel_new(cmd, pid)
        r == start_encode_with_packet_id(packet_id, model, is_use_packet_id)
    IN /\ sent = <<>>
       /\ Encoder(r, [kind |-> "cmd", model |-> model, reuse |-> is_use_packet_id],
                  ~is_use_packet_id)
       /\ wire' = r.result.cmd_data
       /\ sent' = <<[kind |-> "cmd", model |-> model, reuse |-> is_use_packet_id,
                     pid |-> r.result.packet_id, bytes |-> r.result.cmd_data]>>
       /\ UNCHANGED <<decVars, appVars>>

\* commands without payload over the loopback channel
NextEmpty ==
    \/ \E cmd \in {1, 17, 28722, 65534}, pid \in {0, 1000, 43605, 43690, 65534},
          reuse \in BOOLEAN : SendEmpty(cmd, pid, reuse)
    \/ \E n \in 1..Len(wire) : PacketSlice(n)

SpecEmpty == InitEmpty /\ [][NextEmpty]_vars

\* the RandomResp command 0x7033 with field id 1 holding the bytes as Bin
BinModel(bytes) ==
    add_payload(TtlvCommandModel_new(28723, 1001),
                with_binary(TTLVData_new(1, 3, TRUE), bytes))

\* a command with one Bin field is encoded with its own packet id and written
\* to the channel (ble/src/main.rs write_login_command)
SendBin(bytes) ==
    LET r == start_encode_with_packet_id(packet_id, BinModel(bytes), TRUE)
    IN /\ sent = <<>>
       /\ Encoder(r, [kind |-> "cmd", model |-> BinModel(bytes), reuse |-> TRUE], FALSE)
       /\ wire' = r.result.cmd_data
       /\ sent' = <<[kind |-> "cmd", model |-> BinModel(bytes), reuse |-> TRUE,
                     pid |-> r.result.packet_id, bytes |-> r.result.cmd_data]>>
       /\ UNCHANGED <<decVars, appVars>>

\* commands with one Bin field over the loopback channel
NextBin ==
    \/ \E bytes \in ByteStrings : SendBin(bytes)
    \/ \E n \in 1..Len(wire) : PacketSlice(n)

SpecBin == Init /\ [][NextBin]_vars

\* manufacturer data as a device lays it out: tag, version 1, product key and
\* device key with their length bytes, device_status, and what follows it
Adv(tag, pk_length, pk, dk_length, dk, status, rest) ==
    tag \o <<0, 1, pk_length>> \o pk \o <<dk_length>> \o dk \o <<status>> \o rest

\* the manufacturer data the model gives to the parser: three tags, length
\* bytes that fit and that overrun, device keys with and without a trailing
\* '0', and zero to four bytes after device_status
AdvInputs ==
    {Adv(tag, pl, <<97, 98, 99, 100>>, dl, dk, 0, rest) :
        tag \in {<<69, 67>>, <<105, 103>>, <<69, 68>>},
        pl \in {4, 40},
        dl \in {4, 8, 40},
        dk \in {<<222, 173, 190, 239>>, <<222, 173, 190, 240>>,
                <<222, 173, 190, 239, 1, 2, 3, 240>>},
        rest \in {<<>>, <<1>>, <<1, 0>>} \cup
                 {<<a, b, 0, 0>> : a \in {0, 1, 16, 17, 165}, b \in {0, 1, 16, 17, 165}}}

\* Option<&Vec<u8>> of manufacturer_data.get(&0x5551): <<>> is None and
\* <<bytes>> is Some(bytes)
AdvData == {<<>>} \cup {<<bytes>> : bytes \in AdvInputs}

\* Option<String> name of the advertising device: <<>> or <<"dev">>
AdvNames == {<<>>, <<(<<100, 101, 118>>)>>}

\* a device has been discovered and its manufacturer data read
InitAdv ==
    /\ packet_id = 0
    /\ result = EncodeResult_new
    /\ cmd_data = <<>>
    /\ encoded = [kind |-> "none"]
    /\ serial = 0
    /\ calls = 0
    /\ receive_data = <<>>
    /\ unstuffed = <<>>
    /\ results = <<>>
    /\ located = <<>>
    /\ wire = <<>>
    /\ sent = <<>>
    /\ emitted = <<>>
    /\ slices = 0
    /\ manufacturer_data \in AdvData
    /\ quec_device = [kind |-> "unset"]
    /\ binding_key = DefaultBindingKey
    /\ written = <<>>
    /\ task = "running"
    /\ random = <<>>
    /\ session = SessionSpawned

\* AdapterEvent::DeviceAdded: try_get_quec_device on the manufacturer data
TryGetQuecDevice(name) ==
    /\ quec_device.kind = "unset"
    /\ quec_device' = try_get_quec_device(name, "00:11:22:33:44:55", manufacturer_data)
    /\ UNCHANGED <<manufacturer_data, encVars, chanVars, decVars,
                   binding_key, written, task, random, session>>

NextAdv == \E name \in AdvNames : TryGetQuecDevice(name)

SpecAdv == InitAdv /\ [][NextAdv]_vars

(***************************************************************************)
(* The notify task of ble/src/main.rs: every notification value goes       *)
(* through packet_slice and every result through the match on its command. *)
(***************************************************************************)
\* the value of a character in the standard base64 alphabet, -1 for any other
B64Index(c) ==
    IF c \in 65..90 THEN c - 65
    ELSE IF c \in 97..122 THEN c - 71
    ELSE IF c \in 48..57 THEN c + 4
    ELSE IF c = 43 THEN 62
    ELSE IF c = 47 THEN 63
    ELSE -1

RECURSIVE B64Groups(_)
\* the bytes of the groups of four characters
B64Groups(v) ==
    IF Len(v) < 4 THEN <<>>
    ELSE <<v[1] * 4 + v[2] \div 16, (v[2] % 16) * 16 + v[3] \div 4,
           (v[3] % 4) * 64 + v[4]>> \o B64Groups(SubSeq(v, 5, Len(v)))

\* base64 STANDARD.decode(str): padded input, no other character, no
\* trailing bits
b64_decode(str) ==
    LET n == Len(str)
        pad == IF n >= 2 /\ str[n] = 61 THEN (IF str[n - 1] = 61 THEN 2 ELSE 1) ELSE 0
        v == SubSeq([i \in 1..n |-> IF i > n - pad THEN 0 ELSE B64Index(str[i])], 1, n)
        all == B64Groups(v)
    IN IF n % 4 # 0 \/ \E i \in 1..n : v[i] < 0 THEN [ok |-> FALSE]
       ELSE IF pad = 1 /\ v[n - 1] % 4 # 0 THEN [ok |-> FALSE]
       ELSE IF pad = 2 /\ v[n - 2] % 16 # 0 THEN [ok |-> FALSE]
       ELSE [ok |-> TRUE, bytes |-> SubSeq(all, 1, Len(all) - pad)]

\* digest(input): 64 lowercase hex characters that depend on the input.  The
\* SHA-256 value itself is not computed.
digest(input) ==
    SubSeq([i \in 1..64 |-> HexDigits[((Len(input) + input[1] + i) % 16) + 1]], 1, 64)

\* write_login_command up to the write: a panic of b64.decode(..).unwrap(), or
\* the Login model and its encoding
write_login_command(counter, random_value, key) ==
    LET d == b64_decode(key)
        \* bk + ";" + &random_value, bk by bytes_to_hex_str ({:02x} of every byte)
        params == bytes_to_hex_string(d.bytes) \o <<59>> \o random_value
        login_model == add_payload(TtlvCommandModel_new(28724, 1001),
                                   with_binary(TTLVData_new(2, 3, TRUE), digest(params)))
    IN IF ~d.ok THEN [panic |-> TRUE]
       ELSE [panic |-> FALSE, model |-> login_model,
             r |-> start_encode_with_packet_id(counter, login_model, TRUE)]

RECURSIVE FindId(_, _, _)
\* payloads.iter().find(|payload| payload.id == id): its index from i on, 0 for None
FindId(payloads, id, i) ==
    IF i > Len(payloads) THEN 0
    ELSE IF payloads[i].id = id THEN i
    ELSE FindId(payloads, id, i + 1)

RECURSIVE SetRandom(_, _)
\* the loop over model.payloads: every Binary payload goes to set_random
SetRandom(payloads, str) ==
    IF payloads = <<>> THEN str
    ELSE SetRandom(Tail(payloads),
                   IF Head(payloads).value.kind = "Binary"
                   THEN from_utf8_lossy(Head(payloads).value.v) ELSE str)

\* the match arm of one DecodeResult; h holds binding_key, the frames written,
\* the encoder (enc, by the fields of Encoder), random and whether the task
\* has panicked
HandleResult(res, h) ==
    IF res.kind # "Success" THEN h
    ELSE LET model == res.model
             one == FindId(model.payloads, 1, 1)
             three == FindId(model.payloads, 3, 1)
             nine == FindId(model.payloads, 9, 1)
             login == write_login_command(h.enc.packet_id,
                                          from_utf8_lossy(model.payloads[one].value.v),
                                          h.binding_key)
             matched ==
                 CASE model.cmd = 28723 ->                       \* Cmd::RandomResp
                        IF one = 0 THEN [h EXCEPT !.panicked = TRUE]
                        ELSE IF model.payloads[one].value.kind # "Binary" THEN h
                        ELSE IF login.panic THEN [h EXCEPT !.panicked = TRUE]
                        ELSE [h EXCEPT !.enc = login.r,
                                       !.written = Append(h.written,
                                           [model |-> login.model,
                                            bytes |-> login.r.result.cmd_data])]
                   [] model.cmd = 28725 ->                       \* Cmd::LoginResp
                        IF three = 0 THEN [h EXCEPT !.panicked = TRUE] ELSE h
                   [] model.cmd = 28689 ->                       \* Cmd::WifiPairResp
                        IF nine # 0 /\ model.payloads[nine].value.kind = "Binary"
                        THEN [h EXCEPT !.binding_key =
                                  from_utf8_lossy(model.payloads[nine].value.v)]
                        ELSE h
                   [] OTHER -> h
         IN IF matched.panicked THEN matched
            ELSE [matched EXCEPT !.random = SetRandom(model.payloads, matched.random)]

RECURSIVE HandleResults(_, _)
\* for result in results, up to a panic
HandleResults(list, h) ==
    IF list = <<>> \/ h.panicked THEN h
    ELSE HandleResults(Tail(list), HandleResult(Head(list), h))

\* the frames the device answers with: RandomResp with field 1 Bin, without
\* field 1, with field 1 Int, with field 1 Int and then Bin; Random with field
\* 1 Bin; LoginResp with and without field 3; WifiPairResp with field 9 "QUJD"
\* and "key!", with field 9 Int and without field 9
DeviceModels ==
    <<add_payload(TtlvCommandModel_new(28723, 1),
                  with_binary(TTLVData_new(1, 3, TRUE), <<97, 98>>)),
      add_payload(TtlvCommandModel_new(28723, 1),
                  with_binary(TTLVData_new(2, 3, TRUE), <<97, 98>>)),
      add_payload(TtlvCommandModel_new(28723, 1),
                  with_integer(TTLVData_new(1, 2, TRUE), I64(7))),
      add_payload(add_payload(TtlvCommandModel_new(28723, 1),
                              with_integer(TTLVData_new(1, 2, TRUE), I64(7))),
                  with_binary(TTLVData_new(1, 3, TRUE), <<97, 98>>)),
      add_payload(TtlvCommandModel_new(28722, 1),
                  with_binary(TTLVData_new(1, 3, TRUE), <<97, 98>>)),
      add_payload(TtlvCommandModel_new(28725, 1001),
                  with_binary(TTLVData_new(3, 3, TRUE), <<111, 107>>)),
      TtlvCommandModel_new(28725, 1001),
      add_payload(TtlvCommandModel_new(28689, 1001),
                  with_binary(TTLVData_new(9, 3, TRUE), <<81, 85, 74, 68>>)),
      add_payload(TtlvCommandModel_new(28689, 1001),
                  with_binary(TTLVData_new(9, 3, TRUE), <<107, 101, 121, 33>>)),
      add_payload(TtlvCommandModel_new(28689, 1001),
                  with_integer(TTLVData_new(9, 2, TRUE), I64(7))),
      add_payload(TtlvCommandModel_new(28689, 1001),
                  with_binary(TTLVData_new(1, 3, TRUE), <<81, 85, 74, 68>>))>>

\* the device notifies a frame; the bytes wait to be delivered
DeviceNotify(m) ==
    LET bytes == start_encode_with_packet_id(0, DeviceModels[m], TRUE).result.cmd_data
    IN /\ Len(sent) < MaxNotified
       /\ wire' = wire \o bytes
       /\ sent' = Append(sent, [kind |-> "cmd", model |-> DeviceModels[m], reuse |-> TRUE,
                                pid |-> DeviceModels[m].packet_id, bytes |-> bytes])
       /\ UNCHANGED <<encVars, decVars, appVars>>

\* notify.next() gives Some(value) of n bytes: packet_slice, then the match on
\* every result
Notify(n) ==
    /\ task = "running"
    /\ \E r \in {packet_slice(receive_data, SubSeq(wire, 1, n))} :
       \E h \in {HandleResults(r.results,
                    [binding_key |-> binding_key, written |-> written,
                     enc |-> [packet_id |-> packet_id, result |-> result,
                              cmd_data |-> cmd_data],
                     random |-> random, panicked |-> FALSE])} :
          /\ receive_data' = r.receive_data
          /\ unstuffed' = r.spliced
          /\ results' = r.results
          /\ located' = r.located
          /\ emitted' = emitted \o NotIncomplete(r.results)
          /\ slices' = IF slices < 2 THEN slices + 1 ELSE 2
          /\ wire' = SubSeq(wire, n + 1, Len(wire))
          /\ packet_id' = h.enc.packet_id
          /\ result' = h.enc.result
          /\ cmd_data' = h.enc.cmd_data
          /\ binding_key' = h.binding_key
          /\ written' = h.written
          /\ random' = h.random
          /\ task' = IF h.panicked THEN "panicked" ELSE "running"
          /\ UNCHANGED <<encoded, serial, calls, sent, manufacturer_data, quec_device,
                         session>>

NextTask ==
    \/ \E m \in 1..Len(DeviceModels) : DeviceNotify(m)
    \* a notification value is what is pending, all but its last byte, or one byte
    \/ \E n \in {k \in 1..Len(wire) : k = 1 \/ k >= Len(wire) - 1} : Notify(n)

SpecTask == Init /\ [][NextTask]_vars

\* wifi_pair_model of write_wifi_pair_command: "Xata290.2", "Feedbacc290", 30, 380,
\* "mqtt://local-mqtt.test:1337"
WifiPairModel ==
    add_payload(add_payload(add_payload(add_payload(add_payload(
        TtlvCommandModel_new(28688, 1001),
        with_binary(TTLVData_new(1, 3, TRUE),
                    <<88, 97, 116, 97, 50, 57, 48, 46, 50>>)),
        with_binary(TTLVData_new(2, 3, TRUE),
                    <<70, 101, 101, 100, 98, 97, 99, 99, 50, 57, 48>>)),
        with_integer(TTLVData_new(11, 2, TRUE), I64(30))),
        with_integer(TTLVData_new(12, 2, TRUE), I64(380))),
        with_binary(TTLVData_new(13, 3, TRUE),
                    <<109, 113, 116, 116, 58, 47, 47, 108, 111, 99, 97, 108, 45, 109,
                      113, 116, 116, 46, 116, 101, 115, 116, 58, 49, 51, 51, 55>>))

\* the write task: with a writable characteristic write_wifi_pair_command encodes
\* the model on the task's new EncodeTools by start_encode and writes the frame
WriteTask(write) ==
    /\ encoded.kind = "none"
    /\ IF write
       THEN \E r \in {start_encode(packet_id, WifiPairModel)} :
               /\ Encoder(r, [kind |-> "cmd", model |-> WifiPairModel, reuse |-> FALSE],
                          TRUE)
               /\ wire' = r.result.cmd_data
               /\ sent' = <<[kind |-> "cmd", model |-> WifiPairModel, reuse |-> FALSE,
                             pid |-> r.result.packet_id, bytes |-> r.result.cmd_data]>>
               /\ written' = <<[model |-> WifiPairModel, bytes |-> r.result.cmd_data]>>
       ELSE /\ encoded' = [kind |-> "skipped"]
            /\ UNCHANGED <<packet_id, result, cmd_data, serial, calls, chanVars, written>>
    /\ UNCHANGED <<decVars, manufacturer_data, quec_device, binding_key, task, random,
                   session>>

\* the write task, and the written frame read by a decoder in any chunks
NextWrite ==
    \/ \E write \in BOOLEAN : WriteTask(write)
    \/ \E n \in 1..Len(wire) : PacketSlice(n)

SpecWrite == Init /\ [][NextWrite]_vars

(***************************************************************************)
(* The encoder on numeric fields: with_integer, with_float and with_string  *)
(* values, alone or inside a struct, in command 0x7016.                    *)
(***************************************************************************)
NumFields ==
    LET num(v) == [TTLVData_new(1, 2, TRUE) EXCEPT !.value = v]
        VF64(neg, whole, frac) ==
            [kind |-> "Float", v |-> [neg |-> neg, whole |-> whole, frac |-> frac]]
        VString(dot, parsed) ==
            [kind |-> "String", v |-> [dot |-> dot, parsed |-> parsed]]
        z(n) == [i \in 1..n |-> 0]
        two == VF64(FALSE, <<2>>, SubSeq(z(15), 1, 15))
        half == VF64(FALSE, <<2>>, <<5>> \o SubSeq(z(14), 1, 14))
    IN << num(VInteger(I64(1))), num(VInteger(I64(-5))), num(VInteger(MinI64)),
          num(two), num(half),
          num(VF64(TRUE, <<0>>, <<1>> \o SubSeq(z(14), 1, 14))),
          num(VF64(FALSE, <<0>>, SubSeq(z(15), 1, 15))),
          num(VF64(FALSE, <<1, 2, 3, 4, 5, 6, 7>>,
                   <<1, 0, 0, 0, 0, 0, 0, 0, 0, 0, 9, 3, 1, 3, 2>>)),
          num(VString(FALSE, <<I64(12)>>)), num(VString(FALSE, <<>>)),
          num(VString(TRUE, <<half.v>>)), num(VString(TRUE, <<>>)),
          with_binary(TTLVData_new(1, 3, TRUE), <<1, 2>>),
          with_boolean(TTLVData_new(1, 0, TRUE), TRUE),
          with_struct(TTLVData_new(5, 4, TRUE), <<num(VInteger(I64(7)))>>),
          with_struct(TTLVData_new(5, 4, TRUE), <<num(half), num(two)>>),
          num(VInteger(ZeroI64)), num(VInteger(I64(255))), num(VInteger(I64(256))),
          num(VInteger(I64(-65536))), num(VInteger(<<127>> \o [i \in 1..7 |-> 255])) >>

\* start_encode_with_packet_id on a model of one field; a panic unwinds out
\* of the call before the encoder's counter is touched
StartEncodeNum(k, is_use_packet_id, checks) ==
    LET model == add_payload(TtlvCommandModel_new(28694, 1001), NumFields[k])
    IN /\ is_use_packet_id \/ calls < MaxAuto
       /\ IF PayloadPanics(model.payloads, checks)
          THEN /\ encoded' = [kind |-> "panic", model |-> model,
                              reuse |-> is_use_packet_id]
               /\ UNCHANGED <<packet_id, result, cmd_data, serial, calls>>
          ELSE Encoder(start_encode_with_packet_id(packet_id, model, is_use_packet_id),
                       [kind |-> "cmd", model |-> model, reuse |-> is_use_packet_id],
                       ~is_use_packet_id)
       /\ UNCHANGED <<appVars, chanVars, decVars>>

NextNum ==
    \E k \in 1..Len(NumFields), reuse \in BOOLEAN, checks \in BOOLEAN :
        StartEncodeNum(k, reuse, checks)

SpecNum == Init /\ [][NextNum]_vars

(***************************************************************************)
(* The decoder on payloads a device may send: RandomResp frames (pid 1001) *)
(* whose payload holds empty, overlong or cut elements, and numeric        *)
(* elements of every sign and width.                                       *)
(***************************************************************************)
RawPayloads ==
    << <<0, 9, 0, 19, 0, 0, 0, 25>>,
       <<0, 9, 0, 19, 0, 5, 0, 25>>,
       <<0, 9, 0, 19, 0, 5, 1>>,
       <<0, 9, 0, 19>>,
       <<0, 9, 0, 19, 0, 2, 7, 8, 0, 25>>,
       <<0, 9, 0, 18, 3, 1, 2>>,
       <<0, 9, 0, 18>>,
       <<0, 9, 0, 44, 0, 2, 0, 9>>,
       <<0, 44, 0, 2, 0, 19, 0, 0, 0, 25>>,
       <<0, 10, 0, 5>>,
       <<0, 10, 128, 5>>,
       <<0, 10, 128, 0>>,
       <<0, 10, 8, 25>>,
       <<0, 10, 1, 1, 2>>,
       <<0, 10, 131, 1, 2, 3, 4>>,
       <<0, 10, 7, 127, 255, 255, 255, 255, 255, 255, 255>>,
       <<0, 10, 7, 128, 0, 0, 0, 0, 0, 0, 1>>,
       <<0, 10, 135, 127, 255, 255, 255, 255, 255, 255, 255>>,
       <<0, 10, 135, 128, 0, 0, 0, 0, 0, 0, 0>>,
       <<0, 10, 135, 255, 255, 255, 255, 255, 255, 255, 255>>,
       <<0, 14, 0, 15, 0, 9>>,
       <<0, 44, 255, 255, 0, 9>>,
       <<0, 44, 0, 1, 0, 44, 0, 1, 0, 9>>,
       <<0, 44, 0, 2, 0, 19>>,
       <<0, 44, 0, 1, 0, 44>> >>

\* the device sends one frame
InjectPayload(k) ==
    LET frame == garble_buffer(Envelope(1001, 28723, RawPayloads[k]))
    IN /\ sent = <<>>
       /\ wire' = frame
       /\ sent' = <<[kind |-> "raw", bytes |-> frame]>>
       /\ UNCHANGED <<appVars, encVars, decVars>>

\* packet_slice in the notify task on the next n bytes.  Where the build
\* checks overflow, -(enum_value as i64) stops the task when the magnitude is
\* 2^63; in these payloads that is a descriptor 0x87 before 80 00 .. 00.
SlicePayload(n, checks) ==
    \E r \in {packet_slice(receive_data, SubSeq(wire, 1, n))} :
        /\ task = "running"
        /\ IF /\ checks
              /\ NotIncomplete(r.results) # <<>>
              /\ SubSeq(sent[1].bytes, 12, Len(sent[1].bytes)) = <<135>> \o MinI64
           THEN /\ task' = "panicked"
                /\ wire' = SubSeq(wire, n + 1, Len(wire))
                /\ UNCHANGED <<decVars, encVars, sent, manufacturer_data,
                               quec_device, binding_key, written, random, session>>
           ELSE PacketSlice(n)

NextPay ==
    \/ \E k \in 1..Len(RawPayloads) : InjectPayload(k)
    \/ \E n \in 1..Len(wire), checks \in BOOLEAN : SlicePayload(n, checks)

SpecPay == Init /\ [][NextPay]_vars

\* fn packet_slice on a chunk of n bytes, n = 0 included.  With nothing
\* accumulated and an empty chunk, splice_buffer is called on an empty slice:
\* its loop condition computes arr.len() - 1 on a usize of 0, which stops a
\* build with overflow checks; without them it wraps to usize::MAX and
\* arr[0] is out of bounds.  Both builds panic before any state is written.
PacketSliceChunk(n) ==
    /\ task = "running"
    /\ IF receive_data = <<>> /\ n = 0
       THEN /\ task' = "panicked"
            /\ UNCHANGED <<manufacturer_data, quec_device, binding_key, written, random,
                           session,
                           encVars, chanVars, decVars>>
       ELSE PacketSlice(n)

\* a peer writes byte strings; the decoder is given chunks of any length
NextChunk ==
    \/ \E k \in 1..Len(RawStrings) : task = "running" /\ Inject(k)
    \/ \E n \in 0..Len(wire) : PacketSliceChunk(n)

SpecChunk == Init /\ [][NextChunk]_vars

(***************************************************************************)
(* The session of main: the notify task and the write task on a            *)
(* current_thread runtime, which runs one task at a time and changes task  *)
(* only at an await.  An action is what one task does from one await to    *)
(* the next.                                                               *)
(***************************************************************************)
\* fn write_to_characteristic up to the await of its first write_ext
CallWrite(t) ==
    [session EXCEPT !.pc[t] = "write", !.retries[t] = 2, !.attempts[t] = 1,
                    !.res[t] = "none", !.busy = @ \cup {t}]

\* notify.next() gives Some(value).  The events of packet_slice(value) are
\* matched in turn: a RandomResp whose field 1 is a Bin calls
\* write_login_command ("login"); a RandomResp without field 1 or a LoginResp
\* without field 3 panics at the unwrap, as packet_slice does for an empty
\* value ("panic"); every other event is printed ("print").
SessionNotify(kind) ==
    /\ task = "running"
    /\ session.pc.notify = "next"
    /\ session.delivered < MaxNotified
    /\ CASE kind = "login" ->
              /\ session' = [CallWrite("notify") EXCEPT !.delivered = @ + 1]
              /\ UNCHANGED task
         [] kind = "panic" ->
              /\ task' = "panicked"
              /\ session' = [session EXCEPT !.delivered = @ + 1]
         [] OTHER ->
              /\ session' = [session EXCEPT !.delivered = @ + 1]
              /\ UNCHANGED task
    /\ UNCHANGED <<manufacturer_data, quec_device, binding_key, written, random,
                   encVars, chanVars, decVars>>

\* notify.next() gives None: the loop of the notify task breaks
SessionStreamEnds ==
    /\ task = "running"
    /\ session.pc.notify = "next"
    /\ session' = [session EXCEPT !.pc.notify = "ended"]
    /\ UNCHANGED <<manufacturer_data, quec_device, binding_key, written, random, task,
                   encVars, chanVars, decVars>>

\* the write_ext call of task t completes, with Ok(()) or with an Err: the
\* match of write_to_characteristic, and what its caller does with the value
\* returned (the notify task drops it, the write task applies ? to it)
SessionWriteReturns(t, ok) ==
    /\ t \in session.busy
    /\ t = "notify" => task = "running"
    /\ session' =
          IF ok
          THEN [session EXCEPT !.busy = @ \ {t}, !.res[t] = "ok",
                               !.pc[t] = IF t = "notify" THEN "next" ELSE "after"]
          ELSE IF session.retries[t] > 0
          THEN [session EXCEPT !.busy = @ \ {t}, !.retries[t] = @ - 1,
                               !.pc[t] = "pause"]
          ELSE [session EXCEPT !.busy = @ \ {t}, !.res[t] = "err",
                               !.pc[t] = IF t = "notify" THEN "next" ELSE "err"]
    /\ UNCHANGED <<manufacturer_data, quec_device, binding_key, written, random, task,
                   encVars, chanVars, decVars>>

\* the sleep of one second after a failed attempt is over: the next write_ext
SessionRetry(t) ==
    /\ session.pc[t] = "pause"
    /\ t = "notify" => task = "running"
    /\ session' = [session EXCEPT !.pc[t] = "write", !.attempts[t] = @ + 1,
                                  !.busy = @ \cup {t}]
    /\ UNCHANGED <<manufacturer_data, quec_device, binding_key, written, random, task,
                   encVars, chanVars, decVars>>

\* the write task, from its first sleep to flags().await?, from there to the
\* write_ext of write_wifi_pair_command (or to its end when the
\* characteristic cannot be written or flags() fails), and from the sleep
\* after the write to Ok(())
SessionWriteTask(flags) ==
    /\ session.pc.write \in {"sleep", "flags", "after"}
    /\ session' =
          CASE session.pc.write = "sleep" -> [session EXCEPT !.pc.write = "flags"]
            [] session.pc.write = "after" -> [session EXCEPT !.pc.write = "ok"]
            [] OTHER ->
                 IF flags = "write" THEN CallWrite("write")
                 ELSE [session EXCEPT !.pc.write = IF flags = "err" THEN "err" ELSE "ok"]
    /\ UNCHANGED <<manufacturer_data, quec_device, binding_key, written, random, task,
                   encVars, chanVars, decVars>>

\* a task has returned or panicked
Terminated(t) ==
    IF t = "notify" THEN task = "panicked" \/ session.pc.notify = "ended"
    ELSE session.pc.write \in {"ok", "err"}

\* tokio::join! returns; write_result is Err only for a task that panicked,
\* which the write task never does, so main goes on to device.disconnect()
SessionJoin ==
    /\ session.main = "join"
    /\ Terminated("notify") /\ Terminated("write")
    /\ session' = [session EXCEPT !.main = "disconnect"]
    /\ UNCHANGED <<manufacturer_data, quec_device, binding_key, written, random, task,
                   encVars, chanVars, decVars>>

NextSession ==
    \/ \E kind \in {"login", "print", "panic"} : SessionNotify(kind)
    \/ SessionStreamEnds
    \/ \E t \in {"notify", "write"}, ok \in BOOLEAN : SessionWriteReturns(t, ok)
    \/ \E t \in {"notify", "write"} : SessionRetry(t)
    \/ \E flags \in {"write", "read", "err"} : SessionWriteTask(flags)
    \/ SessionJoin

SpecSession == Init /\ [][NextSession]_vars

(***************************************************************************)
(* Properties.                                                             *)
(***************************************************************************)
RECURSIVE RangeSum(_, _, _)
\* the sum of s[lo..hi] (1-based), by halving
RangeSum(s, lo, hi) ==
    IF lo > hi THEN 0
    ELSE IF lo = hi THEN s[lo]
    ELSE LET mid == (lo + hi) \div 2
         IN RangeSum(s, lo, mid) + RangeSum(s, mid + 1, hi)

RECURSIVE ValueEq(_, _), FieldsEq(_, _)
\* two TTLV values are equal, Struct values field by field
ValueEq(a, b) ==
    /\ a.kind = b.kind
    /\ IF a.kind = "Struct" THEN FieldsEq(a.v, b.v) ELSE a.v = b.v

\* two payload lists are equal field by field: id, type_id, value
FieldsEq(xs, ys) ==
    /\ Len(xs) = Len(ys)
    /\ \A i \in 1..Len(xs) :
        /\ xs[i].id = ys[i].id
        /\ xs[i].type_id = ys[i].type_id
        /\ ValueEq(xs[i].value, ys[i].value)

RECURSIVE NoStr(_)
\* every field of the list, at any depth, is a Bool, Int, Bin or Struct field
NoStr(fields) ==
    \A i \in 1..Len(fields) :
        /\ fields[i].ttlv
        /\ fields[i].value.kind \in {"Boolean", "Integer", "Binary", "Struct"}
        /\ fields[i].value.kind = "Struct" => NoStr(fields[i].value.v)

\* a command frame the round trip is claimed for
Canonical(F) ==
    /\ F.cmd \in 1..65534
    /\ F.cmd \notin {17, 36}
    /\ NoStr(F.payloads)

\* the event is Success(F') with F' equal to F
IsSuccessOf(event, F) ==
    /\ event.kind = "Success"
    /\ event.model.cmd = F.cmd
    /\ event.model.packet_id = F.packet_id
    /\ FieldsEq(event.model.payloads, F.payloads)

\* the frame a sent command is expected to decode to
Expected(item) ==
    [item.model EXCEPT !.packet_id = IF item.reuse THEN item.model.packet_id
                                     ELSE item.pid]

\* the channel carried exactly n items, all canonical command frames, and the
\* decoder has been fed all their bytes
FedCommands(n) ==
    /\ Len(sent) = n
    /\ \A i \in 1..n : sent[i].kind = "cmd" /\ Canonical(sent[i].model)
    /\ wire = <<>>

\* C1: round trip.  A canonical command frame encoded with its own packet id
\* and fed to a new decoder in one packet_slice call gives exactly one event,
\* Success of an equal frame.
C1_RoundTrip ==
    (FedCommands(1) /\ sent[1].reuse /\ slices = 1)
        => (Len(results) = 1 /\ IsSuccessOf(results[1], sent[1].model))

\* C2: fragmentation.  The bytes of one canonical command frame fed in two or
\* more slices give exactly one Success of an equal frame and no Error: the
\* events other than Incomplete are that one Success.
C2_Fragmentation ==
    (FedCommands(1) /\ slices >= 2)
        => (Len(emitted) = 1 /\ IsSuccessOf(emitted[1], Expected(sent[1])))

\* C3: multi-frame ordering.  The bytes of two canonical command frames fed
\* under any chunking give, Incomplete events removed, Success of the first
\* then Success of the second.
C3_Ordering ==
    FedCommands(2)
        => /\ Len(emitted) = 2
           /\ IsSuccessOf(emitted[1], Expected(sent[1]))
           /\ IsSuccessOf(emitted[2], Expected(sent[2]))

\* the bytes hold AA AA 55 somewhere
HasAAAA55(bytes) ==
    \E i \in 1..(Len(bytes) - 2) :
        bytes[i] = B_AA /\ bytes[i + 1] = B_AA /\ bytes[i + 2] = B_55

\* C4: stuffing inverse.  For a byte string of two or more bytes whose stuffed
\* form holds no AA AA 55, un-stuffing the stuffed form gives the string back,
\* and stuffing keeps the first two bytes.
C4_StuffingInverse ==
    (encoded.kind = "spliced" /\ ~HasAAAA55(result.cmd_data))
        => /\ receive_data = cmd_data
           /\ SubSeq(result.cmd_data, 1, 2) = SubSeq(cmd_data, 1, 2)

\* C5: checksum.  In every envelope built by start_encode_with_packet_id or
\* start_encode_transparent, before stuffing, byte 4 is the sum modulo 256 of
\* the bytes from index 5 to the end, and bytes 2..3 hold 5 + payload length.
C5_Checksum ==
    encoded.kind \in {"cmd", "transparent"}
        => /\ Len(cmd_data) >= 9
           /\ cmd_data[5] = RangeSum(cmd_data, 6, Len(cmd_data)) % 256
           /\ 256 * cmd_data[3] + cmd_data[4] = 5 + (Len(cmd_data) - 9)
           /\ encoded.kind = "transparent"
                 => /\ SubSeq(cmd_data, 10, Len(cmd_data)) = encoded.model.payloads
                    /\ 256 * cmd_data[3] + cmd_data[4] = 5 + Len(encoded.model.payloads)

\* an envelope with a payload whose bytes 5.. add up to more than 255
C5_Witness ==
    /\ encoded.kind = "cmd"
    /\ Len(cmd_data) > 9
    /\ RangeSum(cmd_data, 6, Len(cmd_data)) > 255
    /\ cmd_data[5] = RangeSum(cmd_data, 6, Len(cmd_data)) % 256

\* the value of the length field of a frame starting buf (1-based bytes 3, 4)
LengthField(buf) == 256 * buf[3] + buf[4]

\* byte 4 of the frame is the sum modulo 256 of its bytes 5..end
ChecksumOk(frame) ==
    Len(frame) >= 5 /\ frame[5] = RangeSum(frame, 6, Len(frame)) % 256

\* the least index (0-based) at which AA AA begins in buf
FirstPreamble(buf) ==
    LET at == {i \in 0..(Len(buf) - 2) : buf[i + 1] = B_AA /\ buf[i + 2] = B_AA}
    IN CHOOSE i \in at : \A j \in at : i <= j

\* a located frame is the length field + 4 bytes from the first preamble of
\* the buffer, and exactly the bytes behind it are kept
LocatedRight(l) ==
    LET s == FirstPreamble(l.before)
        n == LengthField(SubSeq(l.before, s + 1, Len(l.before))) + 4
    IN /\ l.frame = SubSeq(l.before, s + 1, s + n)
       /\ l.after = SubSeq(l.before, s + n + 1, Len(l.before))

\* buf begins with a complete command frame with a right checksum and a valid,
\* non-transparent cmd
WellFormedAtStart(buf) ==
    /\ Len(buf) >= 9
    /\ buf[1] = B_AA /\ buf[2] = B_AA
    /\ LengthField(buf) >= 5
    /\ Len(buf) >= LengthField(buf) + 4
    /\ ChecksumOk(SubSeq(buf, 1, LengthField(buf) + 4))
    /\ 256 * buf[8] + buf[9] \notin {0, 36, 65535}

\* the bytes hold no AA 55 pair
NoAA55(bytes) == \A i \in 1..(Len(bytes) - 1) : ~(bytes[i] = B_AA /\ bytes[i + 1] = B_55)

\* C6: CRC error and resume.  A located frame whose byte 4 differs from the sum
\* modulo 256 of its bytes 5..end gives an Error (never Success or
\* Transparent), exactly that frame is removed from the buffer, and a
\* well-formed frame behind it is still emitted as Success, in the same call
\* or, under any chunking, in a later one.
C6_CrcErrorResume ==
    /\ \A i \in 1..Len(located) :
          (Len(located[i].frame) >= 5 /\ ~ChecksumOk(located[i].frame))
              => /\ results[i].kind = "Error"
                 /\ LocatedRight(located[i])
                 /\ WellFormedAtStart(located[i].after)
                       => /\ Len(located) > i
                          /\ located[i + 1].frame =
                                 SubSeq(located[i].after, 1,
                                        LengthField(located[i].after) + 4)
                          /\ results[i + 1].kind = "Success"
                          /\ results[i + 1].model.cmd =
                                 256 * located[i].after[8] + located[i].after[9]
    /\ (/\ Len(sent) = 2 /\ wire = <<>>
        /\ sent[1].kind = "raw" /\ Len(sent[1].bytes) >= 9
        /\ LengthField(sent[1].bytes) + 4 = Len(sent[1].bytes)
        /\ ~ChecksumOk(sent[1].bytes)
        /\ sent[2].kind = "cmd" /\ sent[2].model.cmd % 65536 \notin {0, 36, 65535}
        /\ NoAA55(sent[2].bytes))
          => /\ Len(emitted) = 2
             /\ emitted[1].kind = "Error"
             /\ emitted[2].kind = "Success"
             /\ emitted[2].model.cmd = sent[2].model.cmd
             /\ emitted[2].model.packet_id = sent[2].pid

\* one call located a frame with a wrong checksum and the frame behind it
C6_Witness ==
    /\ Len(located) = 2
    /\ ~ChecksumOk(located[1].frame)
    /\ WellFormedAtStart(located[1].after)
    /\ results[1] = Error(ErrCrc)
    /\ results[2].kind = "Success"

\* C7: every Success event has 1 <= cmd <= 0xFFFE and cmd # 0x0024, and a
\* located frame with a right checksum and cmd 0 or 0xFFFF, or too short to
\* carry a cmd field, gives an Error and is removed from the buffer.
C7_SuccessCmdRange ==
    /\ \A i \in 1..Len(emitted) :
          emitted[i].kind = "Success"
              => emitted[i].model.cmd \in 1..65534 /\ emitted[i].model.cmd # 36
    /\ \A i \in 1..Len(located) :
          (/\ ChecksumOk(located[i].frame)
           /\ \/ Len(located[i].frame) < 9
              \/ 256 * located[i].frame[8] + located[i].frame[9] \in {0, 65535})
              => /\ results[i].kind = "Error"
                 /\ LocatedRight(located[i])

\* a frame with cmd 0xFFFF and a right checksum was located in a stream that
\* also gave a Success
C7_Witness ==
    /\ \E i \in 1..Len(located) :
          /\ located[i].frame = RawStrings[3]
          /\ ChecksumOk(located[i].frame)
          /\ results[i] = Error(ErrCmd)
    /\ \E j \in 1..Len(emitted) : emitted[j].kind = "Success"

\* C8: serial generator.  On a new encoder the calls of get_serial_num return
\* 1000, 1001, ..., 0xFFFE, 1000, ...: the value returned by call number n is
\* 1000 + (n - 1) mod 64535, it lies in 1000..0xFFFE, and the counter, which
\* holds it, never reaches 0xFFFF, so that adding 1 never overflows 16 bits.
C8_SerialSequence ==
    /\ calls = 0 => packet_id = 0
    /\ calls > 0 => /\ serial = 1000 + ((calls - 1) % 64535)
                    /\ serial \in 1000..65534
                    /\ packet_id = serial
    /\ packet_id + 1 <= 65535

\* the generator has gone past 0xFFFE and is back at 1000
C8_Witness == calls > 64535 /\ serial = 1000 /\ packet_id = 1000

\* the packet id given to the last start_encode* call
GivenId(a) == IF a.kind = "cmd" THEN a.model.packet_id ELSE a.model.packet_id.id

\* C9: packet-id selection.  A call that is given a packet id (reuse, or
\* Some(p)) puts that id & 0xFFFF, also 0, in the frame and in the
\* EncodeResult and leaves the counter unchanged; a call that is not takes the
\* next serial number, which is the one the auto-numbered calls before it lead
\* to however many calls with a given id came in between.
C9_PacketIdSelection ==
    [][LET a == encoded'
       IN /\ a.kind \in {"cmd", "transparent"}
          /\ a.reuse => /\ packet_id' = packet_id
                        /\ result'.packet_id = GivenId(a) % 65536
          /\ ~a.reuse => /\ packet_id' = IF packet_id \in 1000..65533
                                         THEN packet_id + 1 ELSE 1000
                         /\ packet_id' = 1000 + calls
                         /\ result'.packet_id = packet_id'
          /\ cmd_data'[6] = result'.packet_id \div 256
          /\ cmd_data'[7] = result'.packet_id % 256
          /\ result'.cmd_key.lo = result'.packet_id]_vars

\* a frame was encoded with the given packet id 0 after auto-numbered ones
C9_Witness ==
    /\ encoded.kind = "cmd" /\ encoded.reuse
    /\ encoded.model.packet_id = 0
    /\ calls > 1
    /\ result.packet_id = 0 /\ cmd_data[6] = 0 /\ cmd_data[7] = 0
    /\ packet_id = 1000 + calls - 1

\* C10: every encoder output starts with AA AA, no AA AA pair begins at an
\* index >= 1 of it, and every AA 55 pair behind the preamble is an AA
\* followed by an inserted escape byte.
C10_NoInteriorPreamble ==
    encoded.kind \in {"cmd", "transparent"}
        => LET out == result.cmd_data
               ins == GarbleLoop(cmd_data).ins
               escapes == {ins[j] : j \in 1..Len(ins)}
           IN /\ out[1] = B_AA /\ out[2] = B_AA
              /\ \A i \in 2..(Len(out) - 1) : ~(out[i] = B_AA /\ out[i + 1] = B_AA)
              /\ \A i \in 3..(Len(out) - 1) :
                    (out[i] = B_AA /\ out[i + 1] = B_55) => i \in escapes

\* C11: after the un-stuffing step of every packet_slice call the accumulator
\* holds no adjacent pair AA 55, except possibly as its last two bytes,
\* whatever was fed before and however the stream was cut.
C11_NoAA55AfterUnstuffing ==
    slices > 0
        => \A i \in 1..(Len(unstuffed) - 2) :
               ~(unstuffed[i] = B_AA /\ unstuffed[i + 1] = B_55)

\* a frame holding AA 55 55 on the channel went through the un-stuffing step
\* in a second or later call, which removed bytes from it
C11_Witness ==
    /\ slices >= 2
    /\ wire = <<>>
    /\ Len(sent) = 1
    /\ \E i \in 1..(Len(sent[1].bytes) - 2) :
          /\ sent[1].bytes[i] = B_AA
          /\ sent[1].bytes[i + 1] = B_55
          /\ sent[1].bytes[i + 2] = B_55
    /\ Len(unstuffed) < Len(sent[1].bytes)
    /\ Len(unstuffed) >= 9

\* the accumulator at the last iteration of the loop of the last packet_slice
\* call: what the last located frame left, or the un-stuffed accumulator
Rest == IF located = <<>> THEN unstuffed ELSE located[Len(located)].after

\* the bytes hold no AA AA pair
NoAAAA(bytes) == \A i \in 1..(Len(bytes) - 1) : ~(bytes[i] = B_AA /\ bytes[i + 1] = B_AA)

\* C12: no-preamble handling.  When the accumulator holds 9 bytes or more and
\* no AA AA, the decoder keeps exactly its last byte and ends the events with
\* Incomplete if that byte is AA, and otherwise empties it and ends the events
\* with the no-header Error; so a frame that follows bytes without a preamble
\* is decoded under every chunking, also one that cuts between its two
\* preamble bytes.
C12_NoPreamble ==
    /\ (slices > 0 /\ Len(Rest) >= 9 /\ NoAAAA(Rest))
          => /\ results # <<>>
             /\ Rest[Len(Rest)] = B_AA
                   => receive_data = <<B_AA>> /\ results[Len(results)] = Incomplete
             /\ Rest[Len(Rest)] # B_AA
                   => receive_data = <<>> /\ results[Len(results)] = Error(ErrNoHeader)
    /\ (/\ Len(sent) = 2 /\ wire = <<>>
        /\ sent[1].kind = "raw" /\ Len(sent[1].bytes) >= 9 /\ NoAAAA(sent[1].bytes)
        /\ sent[1].bytes[Len(sent[1].bytes)] # B_AA
        /\ sent[2].kind = "cmd" /\ sent[2].model.cmd % 65536 \notin {0, 36, 65535}
        /\ NoAA55(sent[2].bytes))
          => /\ emitted # <<>>
             /\ emitted[Len(emitted)].kind = "Success"
             /\ emitted[Len(emitted)].model.cmd = sent[2].model.cmd
             /\ emitted[Len(emitted)].model.packet_id = sent[2].pid
             /\ \A i \in 1..(Len(emitted) - 1) : emitted[i] = Error(ErrNoHeader)

\* a chunk ended with the first preamble byte of a frame behind bytes without
\* a preamble: that byte is kept and the second preamble byte is still to come
C12_Witness ==
    /\ slices > 0
    /\ Len(Rest) >= 9 /\ NoAAAA(Rest) /\ Rest[Len(Rest)] = B_AA
    /\ receive_data = <<B_AA>>
    /\ results = <<Incomplete>>
    /\ Len(sent) = 2 /\ sent[2].kind = "cmd"
    /\ wire = Tail(sent[2].bytes)

\* the first auto-numbered call of the encoder encoded the Random request
\* (cmd 0x7032, no payload)
RandomRequestEncoded ==
    /\ calls = 1
    /\ encoded.kind = "cmd" /\ ~encoded.reuse
    /\ encoded.model.cmd = 28722 /\ encoded.model.payloads = <<>>

\* C13 as stated: the Random request encoded on a new encoder gets packet id
\* 1000 and is exactly AA AA 00 05 12 03 E8 70 32, unchanged by stuffing.
C13_RandomRequestBytes ==
    RandomRequestEncoded
        => /\ result.packet_id = 1000
           /\ result.cmd_data = <<170, 170, 0, 5, 18, 3, 232, 112, 50>>
           /\ result.cmd_data = cmd_data

\* C13 amended: the Random request encoded on a new encoder gets packet id
\* 1000 and is exactly AA AA 00 05 8D 03 E8 70 32 (8D being the sum modulo 256
\* of 03 E8 70 32), unchanged by stuffing.
C13_RandomRequestBytesSum ==
    RandomRequestEncoded
        => /\ result.packet_id = 1000
           /\ result.cmd_data = <<170, 170, 0, 5, 141, 3, 232, 112, 50>>
           /\ result.cmd_data = cmd_data

\* the Random request was encoded as the first auto-numbered frame
C13_Witness ==
    /\ RandomRequestEncoded
    /\ Len(result.cmd_data) = 9
    /\ packet_id = 1000

\* the two bytes of an id, high byte first
IdBytes(id) == <<(id \div 256) % 256, id % 256>>

RECURSIVE ReadPayload(_)
\* the ids of the fields, two bytes each, in list order
ReadPayload(fields) ==
    IF fields = <<>> THEN <<>> ELSE IdBytes(Head(fields).id) \o ReadPayload(Tail(fields))

RECURSIVE FieldByField(_)
\* the payload as the concatenation of what each top-level field contributes,
\* a field without carries_value contributing its id
FieldByField(fields) ==
    IF fields = <<>> THEN <<>>
    ELSE (IF ~Head(fields).ttlv THEN IdBytes(Head(fields).id)
          ELSE encode_payload_to_buffer(<<Head(fields)>>))
         \o FieldByField(Tail(fields))

\* C14: read path.  For cmd 0x0011 the payload is the 2-byte big-endian ids of
\* all fields in list order, whatever their flag, type and value, so its
\* length is twice the number of fields; for any other cmd a top-level field
\* without carries_value contributes exactly its 2-byte id.
C14_ReadPath ==
    encoded.kind = "cmd"
        => LET payload == SubSeq(cmd_data, 10, Len(cmd_data))
               fields == encoded.model.payloads
           IN IF encoded.model.cmd % 65536 = 17
              THEN /\ payload = ReadPayload(fields)
                   /\ Len(payload) = 2 * Len(fields)
                   /\ LengthField(cmd_data) = 5 + 2 * Len(fields)
              ELSE payload = FieldByField(fields)

\* a read request was encoded whose fields carry values and flags
C14_Witness ==
    /\ encoded.kind = "cmd"
    /\ encoded.model.cmd = 17
    /\ Len(encoded.model.payloads) = 3
    /\ \E i \in 1..3 : encoded.model.payloads[i].ttlv
    /\ \E i \in 1..3 : encoded.model.payloads[i].value.kind = "Integer"
    /\ SubSeq(cmd_data, 10, Len(cmd_data)) = <<16, 1, 16, 2, 0, 3>>

\* C15: empty payload.  A command without payload fields, with any cmd in
\* 1..0xFFFE and any packet id the encoder can use, encodes to exactly 9 bytes
\* with length field 5, and these bytes fed to a new decoder give [Success]
\* with the same cmd and packet id and no fields.
C15_EmptyPayload ==
    (/\ Len(sent) = 1 /\ sent[1].kind = "cmd"
     /\ sent[1].model.payloads = <<>>
     /\ sent[1].model.cmd \in 1..65534
     /\ slices = 1 /\ wire = <<>>)
        => /\ Len(cmd_data) = 9
           /\ LengthField(cmd_data) = 5
           /\ results = <<Success([cmd |-> sent[1].model.cmd,
                                   packet_id |-> sent[1].pid,
                                   payloads |-> <<>>])>>

RECURSIVE Escaped(_)
\* the bytes with a 0x55 put behind every AA that an AA follows
Escaped(bytes) ==
    IF Len(bytes) < 2 THEN bytes
    ELSE IF bytes[1] = B_AA /\ bytes[2] = B_AA
         THEN <<B_AA, B_55>> \o Escaped(Tail(bytes))
         ELSE <<bytes[1]>> \o Escaped(Tail(bytes))

\* C16: AA AA inside a payload.  A Bin field whose bytes hold the pair AA AA
\* (and no AA 55) goes on the wire with each such pair as AA 55 AA, and the
\* frame fed to a new decoder under any chunking gives Success with the same
\* field: same id, type, length and bytes.
C16_AAAARoundTrip ==
    (/\ Len(sent) = 1 /\ sent[1].kind = "cmd"
     /\ Len(sent[1].model.payloads) = 1
     /\ sent[1].model.payloads[1].value.kind = "Binary"
     /\ ~NoAAAA(sent[1].model.payloads[1].value.v)
     /\ NoAA55(sent[1].model.payloads[1].value.v))
        => LET bin == sent[1].model.payloads[1].value.v
               bytes == sent[1].bytes
           IN /\ SubSeq(bytes, Len(bytes) - Len(Escaped(bin)) + 1, Len(bytes))
                     = Escaped(bin)
              /\ \E i \in 10..(Len(bytes) - 2) :
                    bytes[i] = B_AA /\ bytes[i + 1] = B_55 /\ bytes[i + 2] = B_AA
              /\ wire = <<>>
                    => /\ Len(emitted) = 1
                       /\ IsSuccessOf(emitted[1], sent[1].model)
                       /\ Len(emitted[1].model.payloads[1].value.v) = Len(bin)

\* a Bin holding AA AA AA went over the wire as AA 55 AA 55 AA in two chunks
\* and was decoded
C16_Witness ==
    /\ Len(sent) = 1
    /\ sent[1].model.payloads[1].value.v = <<B_AA, B_AA, B_AA>>
    /\ SubSeq(sent[1].bytes, Len(sent[1].bytes) - 4, Len(sent[1].bytes))
           = <<B_AA, B_55, B_AA, B_55, B_AA>>
    /\ slices = 2 /\ wire = <<>>
    /\ emitted # <<>>
    /\ emitted[1].kind = "Success"
    /\ emitted[1].model.payloads[1].value.v = <<B_AA, B_AA, B_AA>>

\* the parser has returned for manufacturer data of these bytes
Parsed(bytes) ==
    /\ quec_device.kind # "unset"
    /\ manufacturer_data = <<bytes>>

\* the 17 bytes 45 43 00 01 04 61 62 63 64 04 DE AD BE EF 00 hi lo
AdvExample(hi, lo) ==
    Adv(<<69, 67>>, 4, <<97, 98, 99, 100>>, 4, <<222, 173, 190, 239>>, 0, <<hi, lo>>)

\* C17: decoding 45 43 00 01 04 61 62 63 64 04 DE AD BE EF 00 01 00 returns a
\* descriptor with product_key "abcd" and device_key "deadbee"; the same
\* input with bit 8 of the flags clear gives device_key "deadbeef".
C17_AdvertisementExample ==
    /\ Parsed(AdvExample(1, 0))
          => /\ quec_device.kind = "Some"
             /\ quec_device.device.product_key = <<97, 98, 99, 100>>
             /\ quec_device.device.device_key = <<100, 101, 97, 100, 98, 101, 101>>
    /\ Parsed(AdvExample(0, 0))
          => /\ quec_device.kind = "Some"
             /\ quec_device.device.product_key = <<97, 98, 99, 100>>
             /\ quec_device.device.device_key = <<100, 101, 97, 100, 98, 101, 101, 102>>

\* a product_key or device_key length byte of the manufacturer data points
\* past the end of the input
Overrun(bytes) ==
    LET data == SliceFrom(bytes, 2)
    IN \/ 3 + At(data, 2) >= Len(data)
       \/ 4 + At(data, 2) + At(data, 3 + At(data, 2)) > Len(data)

FlagsBigEndian(bytes) ==
    LET data == SliceFrom(bytes, 2)
        at == 5 + At(data, 2) + At(data, 3 + At(data, 2))
    IN IF Len(data) >= at + 2 THEN At(data, at) * 256 + At(data, at + 1) ELSE 0

\* C19: flags are the big-endian u16 after device_status when those bytes are
\* there and 0 when zero or one byte is left; is_cl_dk, is_wifi_config,
\* is_bind, is_enable_bind are bits 0..3, endpoint_type bits 4..7 and
\* is_old_device bit 8 of flags.
C19_Flags ==
    (/\ quec_device.kind # "unset" /\ manufacturer_data # <<>>
     /\ Len(manufacturer_data[1]) >= 19
     /\ SubSeq(manufacturer_data[1], 1, 2) = <<69, 67>>
     /\ ~Overrun(manufacturer_data[1])
     /\ 5 + At(manufacturer_data[1], 4)
          + At(manufacturer_data[1], 5 + At(manufacturer_data[1], 4))
            <= Len(manufacturer_data[1]) - 2)
        => LET flags == FlagsBigEndian(manufacturer_data[1])
           IN /\ quec_device.kind = "Some"
              /\ quec_device.device.capabilities_bitmask = flags
              /\ quec_device.device.is_cl_dk = (flags % 2 = 1)
              /\ quec_device.device.is_wifi_config = ((flags \div 2) % 2 = 1)
              /\ quec_device.device.is_bind = ((flags \div 4) % 2 = 1)
              /\ quec_device.device.is_enable_bind = ((flags \div 8) % 2 = 1)
              /\ quec_device.device.endpoint_type = (flags \div 16) % 16
              /\ quec_device.device.is_old_device = ((flags \div 256) % 2 = 1)

\* a decoded RandomResp whose field id = 1 (the first one of that id) has a
\* Bin value
IsRandomRespBin(event) ==
    /\ event.kind = "Success"
    /\ event.model.cmd = 28723
    /\ \E i \in 1..Len(event.model.payloads) :
          /\ event.model.payloads[i].id = 1
          /\ event.model.payloads[i].value.kind = "Binary"
          /\ \A j \in 1..(i - 1) : event.model.payloads[j].id # 1

\* the frame is a Login with packet_id 1001 and a single field id = 2, type 3, Bin
IsLoginFrame(bytes) ==
    LET got == packet_slice(<<>>, bytes).results
    IN /\ Len(got) = 1
       /\ got[1].kind = "Success"
       /\ got[1].model.cmd = 28724
       /\ got[1].model.packet_id = 1001
       /\ Len(got[1].model.payloads) = 1
       /\ got[1].model.payloads[1].id = 2
       /\ got[1].model.payloads[1].type_id = 3
       /\ got[1].model.payloads[1].value.kind = "Binary"

\* C20: the frames the notify task writes are Login frames (cmd 0x7034,
\* packet_id 1001, a single field id = 2, type 3, Bin), exactly one for every
\* decoded RandomResp that carries field id = 1 with a Bin value and none for
\* anything else it receives.
C20_LoginPerRandomResp ==
    /\ \A i \in 1..Len(written) : IsLoginFrame(written[i].bytes)
    /\ Len(written) = Cardinality({i \in 1..Len(emitted) : IsRandomRespBin(emitted[i])})

\* C21: every WifiPair frame (cmd 0x7010) the session writes carries packet_id
\* 1001 and the fields id 1 Bin, id 2 Bin, id 11 Int, id 12 Int, id 13 Bin in
\* that order; ids of the serial generator are not used for it.
C21_WifiPairFrame ==
    \A i \in 1..Len(written) :
        written[i].model.cmd = 28688
            => LET got == packet_slice(<<>>, written[i].bytes).results
               IN /\ Len(got) = 1
                  /\ got[1].kind = "Success"
                  /\ got[1].model.cmd = 28688
                  /\ got[1].model.packet_id = 1001
                  /\ [k \in 1..Len(got[1].model.payloads) |->
                         <<got[1].model.payloads[k].id,
                           got[1].model.payloads[k].value.kind>>]
                        = <<(<<1, "Binary">>), <<2, "Binary">>, <<11, "Integer">>,
                            <<12, "Integer">>, <<13, "Binary">>>>

\* a decoded RandomResp without field id = 1 or LoginResp without field id = 3
MissingField(event) ==
    /\ event.kind = "Success"
    /\ \/ event.model.cmd = 28723 /\ \A k \in 1..Len(event.model.payloads) :
                                         event.model.payloads[k].id # 1
       \/ event.model.cmd = 28725 /\ \A k \in 1..Len(event.model.payloads) :
                                         event.model.payloads[k].id # 3

\* C22: a RandomResp without field id = 1 or a LoginResp without field id = 3
\* does not stop the notification consumer: after it was decoded the task is
\* still running and takes later notifications.
C22_MissingFieldsTolerated ==
    (\E i \in 1..Len(emitted) : MissingField(emitted[i])) => task = "running"

\* binding_key after the event: the text of the Bin of field id = 9 (the first
\* field of that id) of a WifiPairResp, else the key as it was
Captured(event, key) ==
    IF /\ event.kind = "Success" /\ event.model.cmd = 28689
       /\ \E k \in 1..Len(event.model.payloads) :
             /\ event.model.payloads[k].id = 9
             /\ event.model.payloads[k].value.kind = "Binary"
             /\ \A j \in 1..(k - 1) : event.model.payloads[j].id # 9
    THEN from_utf8_lossy(
             event.model.payloads[CHOOSE k \in 1..Len(event.model.payloads) :
                                     /\ event.model.payloads[k].id = 9
                                     /\ \A j \in 1..(k - 1) :
                                           event.model.payloads[j].id # 9].value.v)
    ELSE key

\* the value of the Login for this RandomResp under the key; <<>> when the key
\* is no base64
LoginValue(event, key) ==
    IF ~b64_decode(key).ok THEN <<>>
    ELSE digest(bytes_to_hex_string(b64_decode(key).bytes) \o <<59>> \o
                from_utf8_lossy(
                    event.model.payloads[CHOOSE k \in 1..Len(event.model.payloads) :
                        /\ event.model.payloads[k].id = 1
                        /\ \A j \in 1..(k - 1) :
                              event.model.payloads[j].id # 1].value.v))

RECURSIVE KeyHistory(_, _, _)
\* the decoded events taken in order from the key on: the key at the end and
\* the values of the Logins, each under the key captured last before it
KeyHistory(events, key, logins) ==
    IF events = <<>> THEN [key |-> key, logins |-> logins]
    ELSE KeyHistory(Tail(events), Captured(Head(events), key),
                    IF IsRandomRespBin(Head(events))
                    THEN Append(logins, LoginValue(Head(events), key))
                    ELSE logins)

\* C23: binding_key changes only when a WifiPairResp with field id = 9 holding
\* a Bin is decoded and then is the text of that value; every Login for a later
\* RandomResp is computed with the key captured last; a WifiPairResp without
\* field 9 or with a non-Bin field 9 leaves the key as it is.
C23_BindingKeyCapture ==
    LET h == KeyHistory(emitted, DefaultBindingKey, <<>>)
    IN /\ binding_key = h.key
       /\ [i \in 1..Len(written) |-> written[i].model.payloads[1].value.v] = h.logins

RECURSIVE HasStr(_)
\* some field of the list, or of a struct in it, is a Str
HasStr(payloads) ==
    \E i \in 1..Len(payloads) :
        \/ payloads[i].value.kind = "String"
        \/ payloads[i].value.kind = "Struct" /\ HasStr(payloads[i].value.v)

\* C24: the encoder returns a frame for every well-formed model; only a model
\* that holds a Str field may make the call fail.
C24_EncoderInfallible ==
    encoded.kind = "panic" => HasStr(encoded.model.payloads)

\* C25: a Struct field is encoded as its header ((id << 3) | 4) once, then the
\* 2-byte count of its children, then each child encoded like a top-level
\* field.
C25_StructEncoding ==
    (/\ encoded.kind = "cmd"
     /\ Len(encoded.model.payloads) = 1
     /\ encoded.model.payloads[1].value.kind = "Struct")
        => LET obj == encoded.model.payloads[1]
           IN SliceFrom(cmd_data, 9) =
                  ttlv_header(obj) \o get_byte_by_short(Len(obj.value.v))
                  \o encode_payload_to_buffer(obj.value.v)

\* the payload of the frame the device sent
SentPayload == SliceFrom(sent[1].bytes, 9)

RECURSIVE BadBinAt(_, _)
\* the offset of the header of the first top-level type 3/5 element of the
\* payload whose length is 0 or runs past the end, -1 if there is none
BadBinAt(payload, offset) ==
    IF offset + 1 >= Len(payload) THEN -1
    ELSE LET ttlv_type == At(payload, offset + 1) % 8
         IN CASE ttlv_type \in {3, 5} ->
                   IF parse_binary(payload, offset + 2).some
                   THEN BadBinAt(payload, parse_binary(payload, offset + 2).offset)
                   ELSE offset
              [] ttlv_type = 2 ->
                   IF parse_enum_value(payload, offset + 2).some
                   THEN BadBinAt(payload, parse_enum_value(payload, offset + 2).offset)
                   ELSE -1
              [] ttlv_type = 4 ->
                   IF parse_struct(payload, offset + 2).some
                   THEN BadBinAt(payload, parse_struct(payload, offset + 2).offset)
                   ELSE -1
              [] OTHER -> BadBinAt(payload, offset + 2)

\* C26: when a top-level type 3/5 element has length 0 or runs past the
\* payload end, the frame's fields are those parsed before that element; no
\* field behind it is emitted.
C26_BadBinaryStops ==
    (emitted # <<>> /\ BadBinAt(SentPayload, 0) >= 0)
        => /\ emitted[1].kind = "Success"
           /\ emitted[1].model.payloads =
                  ParsePayloadLoop(SubSeq(SentPayload, 1, BadBinAt(SentPayload, 0)),
                                   0, <<>>)

RECURSIVE CutAt(_, _, _)
\* Walks the elements of the payload from offset as the wire format lays
\* them out, remaining the number of elements expected (-1: to the end):
\* [cut, at, offset], cut telling whether an element runs past the end of
\* the payload, at the offset of that element's header, offset where the
\* walk ended.
CutAt(payload, offset, remaining) ==
    LET next == IF remaining < 0 THEN remaining ELSE remaining - 1
        off == offset + 2
        ttlv_type == At(payload, offset + 1) % 8
        ttlv_len == read_byte_array_short(Slice(payload, off, off + 2))
        inner == CutAt(payload, off + 2, ttlv_len)
        done == [cut |-> FALSE, at |-> offset, offset |-> offset]
        here == [cut |-> TRUE, at |-> offset, offset |-> offset]
    IN IF remaining = 0 THEN done
       ELSE IF offset >= Len(payload) THEN (IF remaining > 0 THEN here ELSE done)
       ELSE IF offset + 1 >= Len(payload) THEN here
       ELSE CASE ttlv_type \in {3, 5} ->
                   IF off + 1 >= Len(payload) \/ off + 2 + ttlv_len > Len(payload)
                   THEN here
                   ELSE CutAt(payload, off + 2 + ttlv_len, next)
              [] ttlv_type = 2 ->
                   IF parse_enum_value(payload, off).some
                   THEN CutAt(payload, parse_enum_value(payload, off).offset, next)
                   ELSE here
              [] ttlv_type = 4 ->
                   IF off + 1 >= Len(payload) \/ inner.cut THEN here
                   ELSE CutAt(payload, inner.offset, next)
              [] OTHER -> CutAt(payload, off, next)

\* C27: when an element of a checksum-valid frame's payload runs past the
\* payload end, the frame's event is Success and its fields are exactly the
\* fields parsed before that element; nothing is built from its bytes.
C27_TruncatedPayload ==
    (emitted # <<>> /\ CutAt(SentPayload, 0, -1).cut)
        => /\ emitted[1].kind = "Success"
           /\ emitted[1].model.payloads =
                  ParsePayloadLoop(SubSeq(SentPayload, 1, CutAt(SentPayload, 0, -1).at),
                                   0, <<>>)

\* C28: splice_buffer removes the byte after an AA when it is 55 and does not
\* advance after a removal; applied to AA 55 55 it returns AA 55.
C28_UnstuffExample ==
    (encoded.kind = "spliced" /\ result.cmd_data = <<B_AA, B_55, B_55>>)
        => receive_data = <<B_AA, B_55>>

\* C29 as stated: whenever the last iteration of the decode loop finds fewer
\* than 9 bytes in the accumulator, 0 bytes left behind a frame included,
\* packet_slice appends Incomplete and returns with the accumulator unchanged.
C29_ShortBufferIncomplete ==
    (slices > 0 /\ Len(Rest) < 9)
        => /\ results # <<>>
           /\ results[Len(results)] = Incomplete
           /\ receive_data = Rest

\* C29, amended: with 1 to 8 bytes in the accumulator packet_slice appends
\* Incomplete and returns with the accumulator unchanged; with 0 bytes left
\* behind an extracted frame it returns the events of the frames alone.
C29_ShortBuffer ==
    /\ (slices > 0 /\ Len(Rest) \in 1..8)
          => /\ results # <<>>
             /\ results[Len(results)] = Incomplete
             /\ receive_data = Rest
    /\ (slices > 0 /\ Rest = <<>>)
          => /\ located # <<>>
             /\ Len(results) = Len(located)
             /\ \A i \in 1..Len(results) : results[i] # Incomplete
             /\ receive_data = <<>>

\* a call that extracted one frame and left nothing behind it
C29_Witness ==
    /\ slices > 0
    /\ Len(located) = 1 /\ Rest = <<>>
    /\ Len(results) = 1 /\ results[1].kind = "Success"

\* C30: a type-2 element with bit 7 of its descriptor clear decodes to the
\* value of its N magnitude bytes, which is >= 0, and one with bit 7 set to
\* minus that value, which is <= 0, for every N in 1..8; the decoder does not
\* stop on any magnitude.
C30_NumericSign ==
    /\ task # "panicked"
    /\ (emitted # <<>> /\ SubSeq(SentPayload, 1, 2) = <<0, 10>>)
          => LET D == SentPayload[3]
                 U == read_byte_array_long(SliceFrom(SentPayload, 3))
                 value == emitted[1].model.payloads[1].value
                 signed == IF value.kind = "Float" THEN value.v.m ELSE value.v
             IN /\ Len(SentPayload) = 3 + (D % 8) + 1
                /\ IF D < 128
                   THEN signed = U /\ ~IsNegI64(signed)
                   ELSE signed = NegI64(U) /\ (IsNegI64(signed) \/ signed = ZeroI64)

\* C31: an Integer v is encoded as a descriptor with bit 7 set exactly when
\* v < 0, bits 3..6 zero and bits 0..2 holding N - 1, followed by the N
\* big-endian bytes of |v| without leading zeros (one 00 byte for 0); Int(1)
\* gives 00 01; parse_enum_value of these bytes returns Int(v).
C31_IntegerEncoding ==
    (/\ encoded.kind \in {"cmd", "panic"}
     /\ encoded.model.payloads[1].value.kind = "Integer")
        => /\ encoded.kind = "cmd"
           /\ LET v == encoded.model.payloads[1].value.v
                  bytes == SliceFrom(cmd_data, 11)
                  D == bytes[1]
                  N == Len(bytes) - 1
                  magnitude == Tail(bytes)
              IN /\ (D \div 128 = 1) <=> IsNegI64(v)
                 /\ (D \div 8) % 16 = 0
                 /\ D % 8 = N - 1
                 /\ N \in 1..8
                 /\ Zeros(8 - N) \o magnitude = (IF IsNegI64(v) THEN NegI64(v) ELSE v)
                 /\ N > 1 => magnitude[1] # 0
                 /\ v = I64(1) => bytes = <<0, 1>>
                 /\ parse_enum_value(bytes, 0) =
                        [some |-> TRUE, value |-> VInteger(v), offset |-> Len(bytes)]

\* C32: a located frame with a right checksum and cmd 0x0024 is emitted as
\* Transparent with that cmd, the frame's packet id and the frame's bytes from
\* offset 9; and a frame of start_encode_transparent for cmd 0x0024, received
\* whole on an idle decoder, is emitted as one Transparent event with the
\* frame's packet id and the model's payload bytes.
C32_TransparentPath ==
    /\ \A i \in 1..Len(located) :
          LET frame == located[i].frame
          IN (/\ Len(frame) >= 9
              /\ frame[5] = sum_calculation(SliceFrom(frame, 5))
              /\ Slice(frame, 7, 9) = <<0, 36>>)
                 => results[i] =
                        Transparent([cmd |-> 36,
                                     packet_id |-> SomeId(frame[6] * 256 + frame[7]),
                                     payloads |-> SliceFrom(frame, 9)])
    /\ (/\ Len(sent) = 1
        /\ sent[1].kind = "transparent"
        /\ wire = <<>>
        /\ slices = 1)
           => /\ Len(results) = 1
              /\ results[1].kind = "Transparent"
              /\ results[1].model.packet_id = SomeId(result.packet_id)
              /\ results[1].model.payloads = sent[1].model.payloads

\* C33: packet_slice returns an event list, without a runtime failure, for
\* every chunk in every decoder state: an empty chunk on an empty accumulator
\* (which leaves the state as it is), a single byte, garbage.
C33_PacketSliceReturns ==
    task = "running"

RECURSIVE FieldCount(_), StructDepth(_)
\* the fields of a decoded list, those inside structs included
FieldCount(payloads) ==
    IF payloads = <<>> THEN 0
    ELSE 1 + (IF Head(payloads).value.kind = "Struct"
              THEN FieldCount(Head(payloads).value.v) ELSE 0)
           + FieldCount(Tail(payloads))

\* the deepest nesting of structs in a decoded list
StructDepth(payloads) ==
    IF payloads = <<>> THEN 0
    ELSE LET d == IF Head(payloads).value.kind = "Struct"
                  THEN 1 + StructDepth(Head(payloads).value.v) ELSE 0
             rest == StructDepth(Tail(payloads))
         IN IF d > rest THEN d ELSE rest

\* every step of a loop advances the offset by at least 2 and never past
\* the payload length + 2
Advances(offsets, payload) ==
    \A j \in 1..(Len(offsets) - 1) :
        /\ offsets[j + 1] >= offsets[j] + 2
        /\ offsets[j + 1] <= Len(payload) + 2

\* C34: decoding terminates.  Every pass of the loop of packet_slice either
\* returns or removes at least 4 bytes of the accumulator; every pass of the
\* loops of parse_payload and parse_struct advances the offset by at least 2
\* and never past the payload length + 2, so the number of fields and the
\* depth of structs are bounded by the payload length, for type codes 6 and
\* 7 and for an element count beyond the bytes at hand as well.
C34_DecodingTerminates ==
    /\ Len(results) <= Len(located) + 1
    /\ \A i \in 1..Len(located) :
          /\ Len(located[i].before) - Len(located[i].after) >= 4
          /\ LET payload == SliceFrom(located[i].frame, 9)
                 offsets == PayloadOffsets(payload, 0)
             IN Len(located[i].frame) > 9
                   => /\ Advances(offsets, payload)
                      /\ \A j \in 1..(Len(offsets) - 1) :
                            (/\ At(payload, offsets[j] + 1) % 8 = 4
                             /\ offsets[j] + 3 < Len(payload))
                               => Advances(StructOffsets(payload, offsets[j] + 4,
                                               read_byte_array_short(
                                                   Slice(payload, offsets[j] + 2,
                                                         offsets[j] + 4))),
                                           payload)
                      /\ results[i].kind = "Success"
                            => /\ FieldCount(results[i].model.payloads) * 2 <= Len(payload)
                               /\ StructDepth(results[i].model.payloads) * 4 <= Len(payload)

\* a frame whose struct announces 65535 elements in four bytes has been parsed
C34_Witness ==
    /\ task = "running"
    /\ Len(located) = 1
    /\ SliceFrom(located[1].frame, 9) = <<0, 44, 255, 255, 0, 9>>
    /\ results[1].kind = "Success"
    /\ StructDepth(results[1].model.payloads) = 1

\* C35: in the list a packet_slice call returns, Incomplete occurs at most
\* once and only as the last element, and so does the no-header Error; every
\* Success, Transparent, checksum Error and invalid-cmd Error stands before
\* them, in the order of the frames in the stream; the list is empty or ends
\* without Incomplete only when the accumulator is empty on return.
C35_EventListShape ==
    slices > 0 =>
        /\ \A i \in 1..Len(results) :
              results[i] \in {Incomplete, Error(ErrNoHeader)} => i = Len(results)
        /\ Len(results) \in {Len(located), Len(located) + 1}
        /\ \A i \in 1..Len(located) :
              /\ results[i] = crc_security(located[i].frame)
              /\ results[i] \notin {Incomplete, Error(ErrNoHeader)}
              /\ located[i].before = (IF i = 1 THEN unstuffed ELSE located[i - 1].after)
              /\ \E s \in 0..Len(located[i].before) :
                    located[i].before =
                        Slice(located[i].before, 0, s) \o located[i].frame
                        \o located[i].after
        /\ (results = <<>> \/ results[Len(results)] # Incomplete) => receive_data = <<>>

\* a call returned two frame events and a closing event
C35_Witness ==
    /\ slices > 0
    /\ Len(located) = 2
    /\ Len(results) = 3
    /\ results[1].kind # results[2].kind

\* C36: a located frame whose length field is 0..4 is consumed as length + 4
\* bytes and yields exactly one Error event, never a Success or a
\* Transparent; decoding goes on with the bytes behind it.
C36_UndersizedLength ==
    slices > 0 =>
        \A i \in 1..Len(located) :
            LET frame == located[i].frame
                L == read_byte_array_short(Slice(frame, 2, 4))
            IN L < 5 =>
                  /\ Len(frame) = L + 4
                  /\ Len(located[i].before) - Len(located[i].after) >= L + 4
                  /\ SubSeq(located[i].before,
                            Len(located[i].before) - Len(located[i].after) - (L + 3),
                            Len(located[i].before) - Len(located[i].after)) = frame
                  /\ results[i].kind = "Error"
                  /\ Len(results) \in {Len(located), Len(located) + 1}
                  /\ Len(results) > Len(located) => Rest # <<>>
                  /\ i < Len(located) => located[i + 1].before = located[i].after

\* a frame of length 4 with a right checksum was cut out and refused, and the
\* frame behind it decoded
C36_Witness ==
    /\ slices > 0
    /\ Len(located) = 2
    /\ located[1].frame = <<170, 170, 0, 4, 36, 0, 0, 36>>
    /\ results[1] = Error(ErrCmd)
    /\ results[2].kind = "Success"

\* the offset of the first AA AA of buf and the length field behind it
HeaderAt(buf) == find_subsequence(buf, stbuf)
DeclaredLength(buf) ==
    read_byte_array_short(Slice(buf, HeaderAt(buf) + 2, HeaderAt(buf) + 4))
HasLength(buf) == HeaderAt(buf) >= 0 /\ HeaderAt(buf) + 3 < Len(buf)

\* C37: when the first AA AA of the accumulator, at offset s, is followed by
\* a length field L and fewer than s + L + 4 bytes are buffered, the call
\* returns exactly [Incomplete], drops the bytes before s and keeps the rest,
\* whatever frames the bytes behind s hold; when the L + 4 bytes are there
\* they are cut out as one frame; after a return with a header in the
\* accumulator the accumulator starts with AA AA.
C37_WaitOnLength ==
    slices > 0 =>
        /\ HasLength(unstuffed) =>
              IF Len(unstuffed) < HeaderAt(unstuffed) + DeclaredLength(unstuffed) + 4
              THEN /\ results = <<Incomplete>>
                   /\ located = <<>>
                   /\ receive_data = SliceFrom(unstuffed, HeaderAt(unstuffed))
              ELSE /\ located # <<>>
                   /\ located[1].frame =
                          Slice(unstuffed, HeaderAt(unstuffed),
                                HeaderAt(unstuffed) + DeclaredLength(unstuffed) + 4)
        /\ HeaderAt(receive_data) >= 0 => HeaderAt(receive_data) = 0

\* C37 as the code has it: the same for an accumulator of 9 bytes or more;
\* with fewer than 9 bytes the call returns [Incomplete] and keeps every
\* byte, the bytes before s and a frame that is whole included.
C37_WaitOnLengthFrom9 ==
    slices > 0 =>
        /\ (HasLength(unstuffed) /\ Len(unstuffed) >= 9) =>
              IF Len(unstuffed) < HeaderAt(unstuffed) + DeclaredLength(unstuffed) + 4
              THEN /\ results = <<Incomplete>>
                   /\ located = <<>>
                   /\ receive_data = SliceFrom(unstuffed, HeaderAt(unstuffed))
              ELSE /\ located # <<>>
                   /\ located[1].frame =
                          Slice(unstuffed, HeaderAt(unstuffed),
                                HeaderAt(unstuffed) + DeclaredLength(unstuffed) + 4)
        /\ Len(unstuffed) < 9 =>
              /\ results = <<Incomplete>>
              /\ located = <<>>
              /\ receive_data = unstuffed
        /\ Len(receive_data) >= 9 => HeaderAt(receive_data) = 0

\* the decoder waits on a frame of length 11 although the bytes behind its
\* header hold a whole frame
C37_Witness ==
    /\ slices > 0
    /\ Len(unstuffed) = 14
    /\ SubSeq(unstuffed, 1, 5) = <<170, 170, 0, 11, 0>>
    /\ HeaderAt(SliceFrom(unstuffed, 5)) = 0
    /\ results = <<Incomplete>>
    /\ receive_data = unstuffed

\* C38: at most one write to the characteristic is in progress; the Login
\* write of the notify task and the WifiPair write of the write task, their
\* retries and pauses included, never overlap or interleave; a write is
\* attempted at most 3 times, and returns the error of the third attempt
\* when none succeeds.
C38_WriteOrdering ==
    /\ Cardinality(session.busy) <= 1
    /\ ~(/\ session.pc.notify \in {"write", "pause"}
         /\ session.pc.write \in {"write", "pause"})
    /\ \A t \in {"notify", "write"} :
          /\ session.attempts[t] <= 3
          /\ session.res[t] = "err" => session.attempts[t] = 3

\* C39: device.disconnect() is called only after both tasks have terminated,
\* and the notify task terminates only when the notification stream ends, so
\* the end of the write task alone never leads to disconnect.
C39_ShutdownOrdering ==
    /\ session.main = "disconnect" => Terminated("notify") /\ Terminated("write")
    /\ Terminated("notify") => session.pc.notify = "ended"
    /\ session.main = "disconnect" => session.pc.notify = "ended"

====
